---- MODULE Spec2Model ----
(***************************************************************************)
(* Chunked lesson-video analysis: segmentVideo (videoSegmenter) and        *)
(* analyzeLessonVideo (geminiService).  One run of the pipeline is a       *)
(* state machine whose steps are the awaits of the source; the external    *)
(* collaborators (FFmpeg.wasm, the Files API, generateContent) answer      *)
(* nondeterministically.  Strings are sequences of one-character strings,  *)
(* so that formatting, parsing and normalisation are computed.             *)
(***************************************************************************)
EXTENDS Integers, Sequences, FiniteSets, TLC

(***************************************************************************)
(* Bounds of the model.                                                    *)
(***************************************************************************)
\* Spec: the recording lasts 0..MaxDurationUnits half segment lengths
MaxDurationUnits == 3
\* at most MaxPolls status requests of one handle answer PROCESSING
MaxPolls == 2
\* at most MaxEntries utterances / interactions in one segment's response
MaxEntries == 1
\* SpecSegment: durations 0..MaxPlanDuration, segment lengths 1..MaxPlanLength
MaxPlanDuration == 7
MaxPlanLength == 4
\* SpecCombine: entries of one response, and the largest talk-time tally
MaxCombineEntries == 2
MaxTally == 2
\* SpecDedup: entries of the one response
MaxDedupEntries == 3

(***************************************************************************)
(* Program constants.                                                      *)
(***************************************************************************)
CHUNK_DURATION_MINUTES == 5
maxRetries == 3
TranscriptWindow == 10
QaWindow == 15
\* the timeouts of analyzeLessonVideo and analyzeVideoSegment, in ms
PollIntervalMs == 2000
UploadPauseMs == 500
AnalysisPauseMs == 1000
RetryBaseMs == 2000

(***************************************************************************)
(* Strings.                                                                *)
(***************************************************************************)
DigitChars == <<"0", "1", "2", "3", "4", "5", "6", "7", "8", "9">>

IsDigit(c) == \E d \in 1..10 : DigitChars[d] = c

DigitValue(c) == (CHOOSE d \in 1..10 : DigitChars[d] = c) - 1

IsSpace(c) == c \in {" ", "\t", "\n"}

RECURSIVE Digits(_)
\* Number.prototype.toString of a natural number
Digits(n) == IF n < 10 THEN <<DigitChars[n + 1]>>
             ELSE Digits(n \div 10) \o <<DigitChars[(n % 10) + 1]>>

\* Number.prototype.toString of an integer
IntToString(n) == IF n < 0 THEN <<"-">> \o Digits(-n) ELSE Digits(n)

\* String.prototype.padStart(2, '0')
PadStart2(s) == IF Len(s) < 2 THEN <<"0">> \o s ELSE s

RECURSIVE Split(_, _)
\* String.prototype.split(sep) for a one-character separator
Split(s, sep) ==
  IF \A k \in 1..Len(s) : s[k] # sep THEN <<s>>
  ELSE LET k == CHOOSE j \in 1..Len(s) :
                  s[j] = sep /\ \A h \in 1..(j - 1) : s[h] # sep
       IN <<SubSeq(s, 1, k - 1)>> \o Split(SubSeq(s, k + 1, Len(s)), sep)

RECURSIVE DropLeadingSpace(_)
DropLeadingSpace(s) ==
  IF s # <<>> /\ IsSpace(s[1]) THEN DropLeadingSpace(Tail(s)) ELSE s

RECURSIVE LeadingDigits(_)
LeadingDigits(s) ==
  IF s # <<>> /\ IsDigit(s[1]) THEN <<s[1]>> \o LeadingDigits(Tail(s)) ELSE <<>>

RECURSIVE DigitsValue(_)
DigitsValue(ds) ==
  IF ds = <<>> THEN 0
  ELSE 10 * DigitsValue(SubSeq(ds, 1, Len(ds) - 1)) + DigitValue(ds[Len(ds)])

\* parseInt(p, 10) || 0 : leading blanks, an optional sign, the leading
\* digits; NaN (no digit) and 0 both give 0
ParseIntOr0(p) ==
  LET t == DropLeadingSpace(p)
      neg == t # <<>> /\ t[1] = "-"
      u == IF t # <<>> /\ t[1] \in {"-", "+"} THEN Tail(t) ELSE t
      ds == LeadingDigits(u)
  IN IF ds = <<>> THEN 0
     ELSE IF neg THEN -DigitsValue(ds) ELSE DigitsValue(ds)

\* the % of JavaScript: the remainder takes the sign of the dividend
JsRem(a, b) == IF a >= 0 THEN a % b ELSE -((-a) % b)

(***************************************************************************)
(* Timestamps (geminiService.ts).                                          *)
(***************************************************************************)
\* mutant: the minutes start again at every hour
MutFormatTimestampWrapsHour(seconds) ==
  LET mins == (seconds \div 60) % 60
      secs == JsRem(seconds, 60)
  IN PadStart2(IntToString(mins)) \o <<":">> \o PadStart2(IntToString(secs))

formatTimestamp(seconds) ==
  LET mins == seconds \div 60
      secs == JsRem(seconds, 60)
  IN PadStart2(IntToString(mins)) \o <<":">> \o PadStart2(IntToString(secs))

parseTimestamp(timestamp) ==
  LET parts == Split(timestamp, ":")
      n(k) == ParseIntOr0(parts[k])
  IN IF Len(parts) = 2 THEN n(1) * 60 + n(2)
     ELSE IF Len(parts) = 3 THEN n(1) * 3600 + n(2) * 60 + n(3)
     ELSE 0

adjustTimestamp(timestamp, offsetSeconds) ==
  formatTimestamp(parseTimestamp(timestamp) + offsetSeconds)

(***************************************************************************)
(* Text similarity (geminiService.ts).                                     *)
(***************************************************************************)
UpperChars == <<"A", "B", "C", "D", "E", "F", "G", "H", "I", "J", "K", "L", "M",
                "N", "O", "P", "Q", "R", "S", "T", "U", "V", "W", "X", "Y", "Z">>
LowerChars == <<"a", "b", "c", "d", "e", "f", "g", "h", "i", "j", "k", "l", "m",
                "n", "o", "p", "q", "r", "s", "t", "u", "v", "w", "x", "y", "z">>

\* String.prototype.toLowerCase, one character
LowerChar(c) ==
  IF \E k \in 1..26 : UpperChars[k] = c
  THEN LowerChars[CHOOSE k \in 1..26 : UpperChars[k] = c]
  ELSE c

toLowerCase(s) == [k \in 1..Len(s) |-> LowerChar(s[k])]

RECURSIVE DropTrailingSpace(_)
DropTrailingSpace(s) ==
  IF s # <<>> /\ IsSpace(s[Len(s)])
  THEN DropTrailingSpace(SubSeq(s, 1, Len(s) - 1)) ELSE s

\* String.prototype.trim
trim(s) == DropTrailingSpace(DropLeadingSpace(s))

RECURSIVE CollapseSpace(_)
\* replace(/\s+/g, ' ')
CollapseSpace(s) ==
  IF s = <<>> THEN <<>>
  ELSE IF IsSpace(s[1])
       THEN <<" ">> \o CollapseSpace(DropLeadingSpace(s))
       ELSE <<s[1]>> \o CollapseSpace(Tail(s))

normalizeText(text) == CollapseSpace(trim(toLowerCase(text)))

\* String.prototype.includes
Includes(s, sub) ==
  \E k \in 0..(Len(s) - Len(sub)) : SubSeq(s, k + 1, k + Len(sub)) = sub

\* new Set(norm.split(' '))
WordSet(norm) == LET ws == Split(norm, " ") IN {ws[k] : k \in 1..Len(ws)}

Max(a, b) == IF a >= b THEN a ELSE b
Min(a, b) == IF a <= b THEN a ELSE b
Abs(a) == IF a < 0 THEN -a ELSE a

\* mutant: similarity >= 0.6
MutWordOverlapSimilar60(words1, words2) ==
  5 * Cardinality(words1 \cap words2)
    >= 3 * Max(Cardinality(words1), Cardinality(words2))

\* intersection.length / Math.max(words1.size, words2.size) >= 0.8
WordOverlapSimilar(words1, words2) ==
  5 * Cardinality(words1 \cap words2)
    >= 4 * Max(Cardinality(words1), Cardinality(words2))

\* mutant: containment is tested in one direction only
MutAreTextsSimilarOneWay(text1, text2) ==
  LET norm1 == normalizeText(text1)
      norm2 == normalizeText(text2)
  IN \/ norm1 = norm2
     \/ Includes(norm1, norm2)
     \/ WordOverlapSimilar(WordSet(norm1), WordSet(norm2))

areTextsSimilar(text1, text2) ==
  LET norm1 == normalizeText(text1)
      norm2 == normalizeText(text2)
  IN \/ norm1 = norm2
     \/ Includes(norm1, norm2) \/ Includes(norm2, norm1)
     \/ WordOverlapSimilar(WordSet(norm1), WordSet(norm2))

(***************************************************************************)
(* Sorting and deduplication (geminiService.ts).                           *)
(***************************************************************************)
RECURSIVE MutInsertBeforeTies(_, _)
\* mutant: an unstable sort, e goes before the elements with its key
MutInsertBeforeTies(sorted, e) ==
  IF sorted = <<>> THEN <<e>>
  ELSE IF parseTimestamp(sorted[1].timestamp) < parseTimestamp(e.timestamp)
       THEN <<sorted[1]>> \o MutInsertBeforeTies(Tail(sorted), e)
       ELSE <<e>> \o sorted

RECURSIVE InsertByTimestamp(_, _)
\* insert e behind every element whose key is <= its own (stable)
InsertByTimestamp(sorted, e) ==
  IF sorted = <<>> THEN <<e>>
  ELSE IF parseTimestamp(sorted[1].timestamp) <= parseTimestamp(e.timestamp)
       THEN <<sorted[1]>> \o InsertByTimestamp(Tail(sorted), e)
       ELSE <<e>> \o sorted

RECURSIVE SortByTimestamp(_)
\* Array.prototype.sort((a, b) => parseTimestamp(a.timestamp) -
\* parseTimestamp(b.timestamp)), which ECMAScript requires to be stable
SortByTimestamp(list) ==
  IF list = <<>> THEN <<>>
  ELSE InsertByTimestamp(SortByTimestamp(SubSeq(list, 1, Len(list) - 1)),
                         list[Len(list)])

\* mutant: the window excludes its boundary value
MutIsDuplicateSegmentStrictWindow(existing, segment) ==
  /\ existing.speaker = segment.speaker
  /\ Abs(parseTimestamp(existing.timestamp) - parseTimestamp(segment.timestamp))
       < TranscriptWindow
  /\ areTextsSimilar(existing.text, segment.text)

\* the callback of result.some(...) in deduplicateTranscript
IsDuplicateSegment(existing, segment) ==
  /\ existing.speaker = segment.speaker
  /\ Abs(parseTimestamp(existing.timestamp) - parseTimestamp(segment.timestamp))
       <= TranscriptWindow
  /\ areTextsSimilar(existing.text, segment.text)

\* the callback of result.some(...) in deduplicateQaPairs
IsDuplicateQa(existing, qa) ==
  /\ Abs(parseTimestamp(existing.timestamp) - parseTimestamp(qa.timestamp))
       <= QaWindow
  /\ areTextsSimilar(existing.question, qa.question)

RECURSIVE DedupTranscriptFrom(_, _)
DedupTranscriptFrom(result, rest) ==
  IF rest = <<>> THEN result
  ELSE IF \E k \in 1..Len(result) : IsDuplicateSegment(result[k], rest[1])
       THEN DedupTranscriptFrom(result, Tail(rest))
       ELSE DedupTranscriptFrom(Append(result, rest[1]), Tail(rest))

RECURSIVE MutDedupAgainstLast(_, _)
\* mutant: a candidate is compared with the last accepted entry only
MutDedupAgainstLast(result, rest) ==
  IF rest = <<>> THEN result
  ELSE IF result # <<>> /\ IsDuplicateSegment(result[Len(result)], rest[1])
       THEN MutDedupAgainstLast(result, Tail(rest))
       ELSE MutDedupAgainstLast(Append(result, rest[1]), Tail(rest))

MutDeduplicateTranscript(transcript) == MutDedupAgainstLast(<<>>, transcript)

RECURSIVE MutDedupAgainstPrevious(_, _)
\* mutant: a candidate is compared with the entry before it in the input
MutDedupAgainstPrevious(list, k) ==
  IF k > Len(list) THEN <<>>
  ELSE (IF k > 1 /\ IsDuplicateSegment(list[k - 1], list[k]) THEN <<>> ELSE <<list[k]>>)
         \o MutDedupAgainstPrevious(list, k + 1)

MutDeduplicateTranscriptAdjacent(transcript) == MutDedupAgainstPrevious(transcript, 1)

RECURSIVE MutDedupKeepsLater(_, _)
\* mutant: a candidate replaces the accepted entries it repeats
MutDedupKeepsLater(result, rest) ==
  IF rest = <<>> THEN result
  ELSE MutDedupKeepsLater(
         Append(SelectSeq(result, LAMBDA e : ~IsDuplicateSegment(e, rest[1])), rest[1]),
         Tail(rest))

MutDeduplicateTranscriptKeepsLater(transcript) == MutDedupKeepsLater(<<>>, transcript)

deduplicateTranscript(transcript) == DedupTranscriptFrom(<<>>, transcript)

RECURSIVE DedupQaFrom(_, _)
DedupQaFrom(result, rest) ==
  IF rest = <<>> THEN result
  ELSE IF \E k \in 1..Len(result) : IsDuplicateQa(result[k], rest[1])
       THEN DedupQaFrom(result, Tail(rest))
       ELSE DedupQaFrom(Append(result, rest[1]), Tail(rest))

deduplicateQaPairs(qaPairs) == DedupQaFrom(<<>>, qaPairs)

(***************************************************************************)
(* Combination of the segment results (analyzeLessonVideo, step 4).        *)
(* Percentages and the average wait are kept in tenths: the value v of    *)
(* the source is the integer 10 * v here.                                  *)
(***************************************************************************)
\* An optional value (a property that may be undefined) is <<>> when it
\* is absent and <<v>> when it is v.
None == <<>>
Some(v) == <<v>>
Get(x) == x[1]

\* x || 0
OrZero(x) == IF x = None THEN 0 ELSE Get(x)

RECURSIVE SumOf(_)
SumOf(nums) == IF nums = <<>> THEN 0 ELSE nums[1] + SumOf(Tail(nums))

RECURSIVE Flatten(_)
Flatten(lists) == IF lists = <<>> THEN <<>> ELSE lists[1] \o Flatten(Tail(lists))

\* Math.round(x) for the rational x = num / den, den > 0
RoundDiv(num, den) == (2 * num + den) \div (2 * den)

\* mutant: the percentage is truncated, not rounded
MutPercentageTruncated(part, totalTime) ==
  IF totalTime > 0 THEN (1000 * part) \div totalTime ELSE 0

\* totalTime > 0 ? Math.round((part / totalTime) * 1000) / 10 : 0, in tenths
Percentage(part, totalTime) ==
  IF totalTime > 0 THEN RoundDiv(1000 * part, totalTime) ELSE 0

\* mutant: filter(w => w >= 0)
MutSelectNonNegative(nums) == SelectSeq(nums, LAMBDA w : w >= 0)

\* filter(w => w > 0)
SelectPositive(nums) == SelectSeq(nums, LAMBDA w : w > 0)

\* waitTimes.length > 0 ? Math.round(mean * 10) / 10 : 0, in tenths
AverageWait(qaPairs) ==
  LET waitTimes == SelectPositive([k \in 1..Len(qaPairs) |-> qaPairs[k].waitTimeSeconds])
  IN IF Len(waitTimes) > 0 THEN RoundDiv(10 * SumOf(waitTimes), Len(waitTimes))
     ELSE 0

\* mutant: only the first result is counted
MutTotalTeacherSecondsFirstOnly(results) ==
  IF results = <<>> THEN 0 ELSE OrZero(results[1].teacherTalkSeconds)

TotalTeacherSeconds(results) ==
  SumOf([k \in 1..Len(results) |-> OrZero(results[k].teacherTalkSeconds)])
TotalStudentSeconds(results) ==
  SumOf([k \in 1..Len(results) |-> OrZero(results[k].studentTalkSeconds)])
TotalSilenceSeconds(results) ==
  SumOf([k \in 1..Len(results) |-> OrZero(results[k].silenceSeconds)])

\* if (result.qaPairs) allQaPairs.push(...result.qaPairs)
AllQaPairs(results) ==
  Flatten([k \in 1..Len(results) |->
             IF results[k].qaPairs = None THEN <<>> ELSE Get(results[k].qaPairs)])
AllTranscript(results) ==
  Flatten([k \in 1..Len(results) |->
             IF results[k].transcript = None THEN <<>> ELSE Get(results[k].transcript)])

CombineResults(results) ==
  LET totalTime == TotalTeacherSeconds(results) + TotalStudentSeconds(results)
                     + TotalSilenceSeconds(results)
      allTranscript == deduplicateTranscript(SortByTimestamp(AllTranscript(results)))
      allQaPairs == deduplicateQaPairs(SortByTimestamp(AllQaPairs(results)))
  IN [teacherTalkTimePercentage |-> Percentage(TotalTeacherSeconds(results), totalTime),
      studentTalkTimePercentage |-> Percentage(TotalStudentSeconds(results), totalTime),
      silenceOrGroupWorkPercentage |-> Percentage(TotalSilenceSeconds(results), totalTime),
      averageWaitTimeSeconds |-> AverageWait(allQaPairs),
      qaPairs |-> allQaPairs,
      transcript |-> allTranscript]

(***************************************************************************)
(* The token tracker (geminiService.ts, class TokenTracker).               *)
(***************************************************************************)
NewTokenTracker ==
  [chunkAnalysis |-> [prompt |-> 0, completion |-> 0],
   feedbackGeneration |-> [prompt |-> 0, completion |-> 0]]

\* mutant: the counters are set, not added to
MutAddChunkAnalysisOverwrites(tracker, prompt, completion) ==
  [tracker EXCEPT !.chunkAnalysis = [prompt |-> prompt, completion |-> completion]]

addChunkAnalysis(tracker, prompt, completion) ==
  [tracker EXCEPT !.chunkAnalysis =
     [prompt |-> @.prompt + prompt, completion |-> @.completion + completion]]

addFeedbackGeneration(tracker, prompt, completion) ==
  [tracker EXCEPT !.feedbackGeneration =
     [prompt |-> @.prompt + prompt, completion |-> @.completion + completion]]

getUsage(tracker) ==
  LET promptTokens == tracker.chunkAnalysis.prompt + tracker.feedbackGeneration.prompt
      completionTokens ==
        tracker.chunkAnalysis.completion + tracker.feedbackGeneration.completion
  IN [promptTokens |-> promptTokens,
      completionTokens |-> completionTokens,
      totalTokens |-> promptTokens + completionTokens,
      breakdown |-> tracker]

\* mutant: the completion count of an analysis response is not added
MutTrackChunkUsagePromptOnly(tracker, usage) ==
  IF usage = None THEN tracker
  ELSE addChunkAnalysis(tracker, OrZero(Get(usage).promptTokenCount), 0)

\* if (usage) tracker.add...(usage.promptTokenCount || 0, usage.candidatesTokenCount || 0)
TrackChunkUsage(tracker, usage) ==
  IF usage = None THEN tracker
  ELSE addChunkAnalysis(tracker, OrZero(Get(usage).promptTokenCount),
                        OrZero(Get(usage).candidatesTokenCount))

TrackFeedbackUsage(tracker, usage) ==
  IF usage = None THEN tracker
  ELSE addFeedbackGeneration(tracker, OrZero(Get(usage).promptTokenCount),
                             OrZero(Get(usage).candidatesTokenCount))

(***************************************************************************)
(* Segment planning (videoSegmenter, segmentVideo).  Durations are whole   *)
(* seconds.                                                                *)
(***************************************************************************)
\* mutant: Math.floor(totalDuration / segmentDurationSeconds) + 1
MutNumSegmentsFloorPlusOne(total, segLen) == (total \div segLen) + 1

\* Math.ceil(totalDuration / segmentDurationSeconds)
NumSegments(total, segLen) == (total + segLen - 1) \div segLen

\* mutant: the duration of the last segment is not clamped to the recording
MutPlannedSegmentUnclamped(i, total, segLen, size) ==
  [index |-> i,
   size |-> size,
   startTimeSeconds |-> i * segLen,
   endTimeSeconds |-> i * segLen + segLen,
   startTimestamp |-> formatTimestamp(i * segLen),
   endTimestamp |-> formatTimestamp(i * segLen + segLen)]

\* the record pushed for segment i (0-based) of the loop
PlannedSegment(i, total, segLen, size) ==
  LET startTime == i * segLen
      duration == Min(segLen, total - startTime)
      endTime == startTime + duration
  IN [index |-> i,
      size |-> size,
      startTimeSeconds |-> startTime,
      endTimeSeconds |-> endTime,
      startTimestamp |-> formatTimestamp(startTime),
      endTimestamp |-> formatTimestamp(endTime)]

(***************************************************************************)
(* What the environment may answer.                                        *)
(***************************************************************************)
\* 200 * 1024 * 1024
UploadLimitBytes == 200 * 1024 * 1024

\* sizes of a cut segment file: at the limit, and one byte over it
FileSizes == {UploadLimitBytes, UploadLimitBytes + 1}

\* sizes of the recording: at the limit, and more than two segments at the
\* limit can hold
SourceSizes == {UploadLimitBytes, 2 * UploadLimitBytes + 1}

\* half the segment length of analyzeLessonVideo, in seconds
DurationUnit == CHUNK_DURATION_MINUTES * 30

\* video.duration of the selected file
Durations == {u * DurationUnit : u \in 0..MaxDurationUnits}

\* exit codes of ff.exec
ExitCodes == {0, 1}

\* result.state of the Files API; "undefined" when the answer has no state
FileStates == {"PROCESSING", "ACTIVE", "FAILED", "undefined"}

\* errors thrown by generateContent: the HTTP status, and whether the
\* message text contains "503"
ApiErrors == {[status |-> 503, mentions503 |-> TRUE],
              [status |-> 500, mentions503 |-> FALSE],
              [status |-> 429, mentions503 |-> TRUE]}

\* e.message?.includes('503') || e.status === 503
IsOverloaded(e) == e.mentions503 \/ e.status = 503

\* response.usageMetadata
Usages == {None,
           Some([promptTokenCount |-> Some(100), candidatesTokenCount |-> Some(50)]),
           Some([promptTokenCount |-> Some(80), candidatesTokenCount |-> Some(40)])}

TxtWhatIs ==
  <<"W", "h", "a", "t", " ", "i", "s", " ", "p", "h", "o", "t", "o", "?">>
TxtWhatIsLower ==
  <<"w", "h", "a", "t", " ", " ", "i", "s", " ", "p", "h", "o", "t", "o">>
TxtFiveA == <<"a", " ", "b", " ", "c", " ", "d", " ", "e">>
TxtFiveB == <<"a", " ", "b", " ", "c", " ", "d", " ", "f">>

Ts0003 == <<"0", "0", ":", "0", "3">>
Ts0458 == <<"0", "4", ":", "5", "8">>
Ts000458 == <<"0", "0", ":", "0", "4", ":", "5", "8">>

\* what one utterance / interaction of a response is drawn from
Item(speaker, text, timestamp, wait) ==
  [speaker |-> speaker, text |-> text, timestamp |-> timestamp,
   waitTimeSeconds |-> wait]

Items == {Item("Teacher", TxtWhatIs, Ts0458, 4),
          Item("Teacher", TxtWhatIsLower, Ts0003, 0)}

TranscriptEntry(item) ==
  [speaker |-> item.speaker, text |-> item.text, timestamp |-> item.timestamp]

QaEntry(item) ==
  [question |-> item.text, answer |-> "No response", timestamp |-> item.timestamp,
   waitTimeSeconds |-> item.waitTimeSeconds, bloomTaxonomyLevel |-> "Remembering"]

SeqsUpTo(S, n) == UNION {[1..k -> S] : k \in 0..n}

Tallies == {<<120, 60, 20>>}

\* a parsed response of the segment schema built from a sequence of items
Payload(tally, items) ==
  [teacherTalkSeconds |-> Some(tally[1]),
   studentTalkSeconds |-> Some(tally[2]),
   silenceSeconds |-> Some(tally[3]),
   qaPairs |-> Some([k \in 1..Len(items) |-> QaEntry(items[k])]),
   transcript |-> Some([k \in 1..Len(items) |-> TranscriptEntry(items[k])])]

\* JSON.parse of "{}": an object with none of the required properties
EmptyObject ==
  [teacherTalkSeconds |-> None, studentTalkSeconds |-> None,
   silenceSeconds |-> None, qaPairs |-> None, transcript |-> None]

Payloads ==
  {Payload(t, its) : t \in Tallies, its \in SeqsUpTo(Items, MaxEntries)}
    \cup {EmptyObject}

\* response.text of a segment analysis: none, text that JSON.parse
\* rejects, or the JSON text of a payload
ResponseTexts ==
  {[kind |-> "none"], [kind |-> "unparseable"]}
    \cup {[kind |-> "json", value |-> p] : p \in Payloads}

\* response.text of the feedback call ("" is falsy, like no text)
FeedbackTexts == {None, Some(""), Some("Well paced lesson.")}

DefaultFeedback ==
  "The lesson demonstrated a structured approach to content delivery with opportunities for increased student participation."

(***************************************************************************)
(* One run of analyzeLessonVideo.                                          *)
(***************************************************************************)
VARIABLES
  pc,                     \* where the run stands: the request it issues next
  totalDuration,          \* video.duration of the file
  fileSize,               \* file.size of the recording handed to analyzeLessonVideo
  segmentDurationSeconds, \* parameter of segmentVideo
  segments,               \* segmentVideo: segments
  i,                      \* index of the loop the run is in
  fileUri,                \* analyzeLessonVideo: fileUri of the segment polled
  segmentUris,            \* analyzeLessonVideo: segmentUris
  state,                  \* analyzeLessonVideo: state of the polling loop
  attempt,                \* analyzeVideoSegment: attempt
  segmentResults,         \* analyzeLessonVideo: segmentResults
  tokenTracker,           \* analyzeLessonVideo: tokenTracker
  combinedData,           \* analyzeLessonVideo: combinedData, once computed
  returned,               \* the LessonAnalysis the promise resolved with
  thrown,                 \* the error the promise rejected with
  execFailed,             \* history: some ff.exec resolved with a code other than 0
  polls,                  \* history: status requests for the current handle
  genCalls,               \* history: generateContent calls for the current segment
  feedbackCalls,          \* history: generateContent calls for the feedback
  lastCall,               \* history: the request issued by the latest step
  lastError,              \* history: the error generateContent threw in the latest step
  waits,                  \* history: the timeouts the latest step awaited, in order
  responses,              \* history: the generateContent responses, as returned
  lastAnalysis,           \* history: fileUri and segmentIndex of the latest analyzeVideoSegment call
  events,                 \* history: what has happened to which segment
  appState,               \* App: state, the AnalysisState shown
  fileName,               \* App: fileName
  runs,                   \* the handleFileSelect calls made, in order
  lastWriter,             \* history: the call whose setState was applied last
  inputFile,              \* videoSegmenter: 'input.mp4' in the file system of `ffmpeg`
  segmentFiles,           \* videoSegmenter: 'segment_NNN.mp4' there, by NNN
  cutRuns,                \* the segmentVideo calls made, in order
  stampOrigin,            \* a timestamp as a response gave it
  stampOffsets,           \* the offsets it has been adjusted by, in order
  stamp,                  \* the timestamp after those adjustments
  onProgress,             \* analyzeLessonVideo: whether onProgress was passed
  notified                \* the calls of onProgress, a run of equal ones kept once

\* one run of analyzeLessonVideo
pipelineVars == <<pc, totalDuration, fileSize, segmentDurationSeconds, segments,
                  i, fileUri, segmentUris, state, attempt, segmentResults,
                  tokenTracker, combinedData, returned, thrown, execFailed,
                  polls, genCalls, feedbackCalls, lastCall, lastError, waits,
                  responses, lastAnalysis, events, onProgress, notified>>

\* the App component and the calls of handleFileSelect it has made
uiVars == <<appState, fileName, runs, lastWriter>>

\* the module-level FFmpeg instance of videoSegmenter and the calls of
\* segmentVideo that use it
cutterVars == <<inputFile, segmentFiles, cutRuns>>

\* one timestamp under adjustTimestamp
stampVars == <<stampOrigin, stampOffsets, stamp>>

\* what one run of analyzeLessonVideo leaves alone
outsideVars == <<uiVars, cutterVars, stampVars>>

vars == <<pipelineVars, uiVars, cutterVars, stampVars>>

\* the timestamp `origin`, not adjusted yet
InitStamp(origin) ==
  /\ stampOrigin = origin
  /\ stampOffsets = <<>>
  /\ stamp = origin

\* segmentVideo calls that may be in flight together
MaxCutRuns == 2

\* segments of a recording cut by one of them
MaxCutSegments == 2

\* the file system of the instance before any call: no file
InitCutter ==
  /\ inputFile = None
  /\ segmentFiles = [k \in 0..(MaxCutSegments - 1) |-> None]
  /\ cutRuns = <<>>

\* useState<AnalysisState>({ status: IDLE, data: null, error: null }); a
\* missing progress is None
IdleState == [status |-> "IDLE", data |-> None, error |-> None, progress |-> None]

\* the App as mounted: nothing selected yet
InitApp ==
  /\ appState = IdleState
  /\ fileName = ""
  /\ runs = <<>>
  /\ lastWriter = 0

\* the run's own data, apart from pc, i, thrown, lastCall and events
fileVars == <<totalDuration, fileSize, segmentDurationSeconds, onProgress>>
uploadVars == <<fileUri, segmentUris, state, polls>>
analysisVars == <<attempt, segmentResults, tokenTracker, genCalls, responses,
                  lastAnalysis>>
reportVars == <<combinedData, returned, feedbackCalls>>

\* analyzeLessonVideo as entered
InitPipeline ==
  /\ pc = "load"
  /\ segments = <<>>
  /\ i = 0
  /\ fileUri = -1
  /\ segmentUris = <<>>
  /\ state = "undefined"
  /\ attempt = 0
  /\ segmentResults = <<>>
  /\ tokenTracker = NewTokenTracker
  /\ combinedData = None
  /\ returned = None
  /\ thrown = "none"
  /\ execFailed = FALSE
  /\ polls = 0
  /\ genCalls = 0
  /\ feedbackCalls = 0
  /\ lastCall = "none"
  /\ lastError = None
  /\ waits = <<>>
  /\ responses = <<>>
  /\ lastAnalysis = None
  /\ events = {}

\* analyzeLessonVideo(file, onProgress): nothing has been notified yet
InitSink(sink) ==
  /\ onProgress = sink
  /\ notified = <<>>

InitRun ==
  /\ InitApp
  /\ InitSink(TRUE)
  /\ InitCutter
  /\ InitStamp(Ts0003)
  /\ InitPipeline

Init ==
  /\ totalDuration \in Durations
  /\ fileSize \in SourceSizes
  /\ segmentDurationSeconds = CHUNK_DURATION_MINUTES * 60
  /\ InitRun

\* mutant: currentSegment: i
MutSegmentProgressZeroBased(phase, k, n) ==
  [phase |-> phase, currentSegment |-> k, totalSegments |-> n]

\* { phase, currentSegment: i + 1, totalSegments: numSegments, ... }
SegmentProgress(phase, k, n) ==
  [phase |-> phase, currentSegment |-> k + 1, totalSegments |-> n]

\* handleSegmentationProgress: { phase: 'segmenting', currentSegment: 0,
\* totalSegments: 1, ... } for every progress of segmentVideo
SegmentationProgress ==
  [phase |-> "segmenting", currentSegment |-> 0, totalSegments |-> 1]

\* { phase, currentSegment: numSegments, totalSegments: numSegments, ... }
RunProgress(phase, n) ==
  [phase |-> phase, currentSegment |-> n, totalSegments |-> n]

\* onProgress?.(progress): nothing without a sink, and the value the sink
\* returns is dropped.  message and percent are left out, and a run of
\* equal notifications is kept once.
Delivered(list, progress) ==
  IF ~onProgress THEN list
  ELSE IF list # <<>> /\ list[Len(list)] = progress THEN list
  ELSE Append(list, progress)

Notify(progress) == notified' = Delivered(notified, progress)

NotifyBoth(first, second) ==
  notified' = Delivered(Delivered(notified, first), second)

\* catch (error) { console.error(...); throw error; }
Fail(kind) == pc' = "failed" /\ thrown' = kind

\* where the run continues once there are n segments to upload
AfterSegmentation(n) == IF n = 0 THEN "feedback" ELSE "upload"

\* mutant: each segment is analysed as soon as it is ACTIVE
MutAfterReadyAnalyzesAtOnce(k, n) == [pc |-> "analyze", i |-> k]

\* where the run continues once segment k of n is ACTIVE
AfterReady(k, n) ==
  IF k + 1 < n THEN [pc |-> "upload", i |-> k + 1] ELSE [pc |-> "analyze", i |-> 0]

\* mutant: the analysis loop stops one segment early
MutAfterAnalysisStopsEarly(k, n) ==
  IF k + 1 < n - 1 THEN [pc |-> "analyze", i |-> k + 1] ELSE [pc |-> "feedback", i |-> n]

\* where the run continues once segment k of n is analysed
AfterAnalysis(k, n) ==
  IF k + 1 < n THEN [pc |-> "analyze", i |-> k + 1] ELSE [pc |-> "feedback", i |-> n]

\* mutant: only the transcript timestamps are moved
MutAdjustResultTranscriptOnly(analysisData, offsetSeconds) ==
  [analysisData EXCEPT
     !.transcript =
       IF @ = None THEN None
       ELSE Some([k \in 1..Len(Get(@)) |->
              [Get(@)[k] EXCEPT !.timestamp = adjustTimestamp(@, offsetSeconds)]])]

\* analysisData with the timestamps of both lists moved by offsetSeconds
AdjustResult(analysisData, offsetSeconds) ==
  LET move(list) ==
        [k \in 1..Len(list) |->
           [list[k] EXCEPT !.timestamp = adjustTimestamp(@, offsetSeconds)]]
  IN [analysisData EXCEPT
        !.transcript = IF @ = None THEN None ELSE Some(move(Get(@))),
        !.qaPairs = IF @ = None THEN None ELSE Some(move(Get(@)))]

(* segmentVideo: loadFFmpeg *)
LoadFFmpeg ==
  /\ pc = "load"
  /\ lastCall' = "none"
  /\ lastError' = None
  /\ waits' = <<>>
  /\ \/ pc' = "duration" /\ thrown' = thrown
     \/ Fail("LoadError")
  /\ \/ \* the instance is loaded already, or the check ahead of the first
        \* progress throws
        notified' = notified
     \/ Notify(SegmentationProgress)
  /\ UNCHANGED <<outsideVars, fileVars, segments, i, uploadVars, analysisVars, reportVars,
                 execFailed, events>>

(* segmentVideo: getVideoDuration, then writeFile of the input *)
GetVideoDuration ==
  /\ pc = "duration"
  /\ lastCall' = "none"
  /\ lastError' = None
  /\ waits' = <<>>
  /\ \/ /\ pc' = IF NumSegments(totalDuration, segmentDurationSeconds) > 0
                 THEN "cut" ELSE "cleanup"
        /\ thrown' = thrown
        /\ Notify(SegmentationProgress)
     \/ Fail("MetadataError") /\ notified' = notified
  /\ UNCHANGED <<outsideVars, fileVars, segments, i, uploadVars, analysisVars, reportVars,
                 execFailed, events>>

(* segmentVideo: one turn of the loop: exec, readFile, push, deleteFile *)
CutSegment ==
  /\ pc = "cut"
  /\ i < NumSegments(totalDuration, segmentDurationSeconds)
  /\ lastCall' = "none"
  /\ lastError' = None
  /\ waits' = <<>>
  /\ Notify(SegmentationProgress)
  /\ \/ \* ff.exec rejects
        /\ Fail("CutError")
        /\ UNCHANGED <<segments, i, execFailed>>
     \/ \* ff.exec resolves with an exit code that is not 0 and
        \* ff.readFile rejects: there is no output file
        /\ Fail("ReadError")
        /\ execFailed' = TRUE
        /\ UNCHANGED <<segments, i>>
     \/ \* ff.exec resolves with any exit code (it is not looked at) and
        \* ff.readFile resolves with what the output file holds
        \E code \in ExitCodes, size \in FileSizes :
          /\ execFailed' = (execFailed \/ code # 0)
          /\ segments' = Append(segments,
               PlannedSegment(i, totalDuration, segmentDurationSeconds, size))
          /\ i' = i + 1
          /\ pc' = IF i + 1 < NumSegments(totalDuration, segmentDurationSeconds)
                   THEN "cut" ELSE "cleanup"
          /\ thrown' = thrown
  /\ UNCHANGED <<outsideVars, fileVars, uploadVars, analysisVars, reportVars, events>>

\* step 4 of analyzeLessonVideo, run when the last analysis has returned
CombineStep(results) ==
  /\ combinedData' = Some(CombineResults(results))
  /\ events' = events \cup {<<"reconcile", Len(results)>>}

(* segmentVideo: deleteFile of the input and return *)
FinishSegmentation ==
  /\ pc = "cleanup"
  /\ lastCall' = "none"
  /\ lastError' = None
  /\ waits' = <<>>
  /\ pc' = AfterSegmentation(Len(segments))
  /\ i' = 0
  /\ IF Len(segments) = 0
     THEN /\ CombineStep(segmentResults)
          /\ notified' = Delivered(Delivered(Delivered(notified,
                 SegmentationProgress), RunProgress("combining", 0)),
                 RunProgress("feedback", 0))
     ELSE /\ UNCHANGED <<combinedData, events>>
          /\ Notify(SegmentationProgress)
  /\ UNCHANGED <<outsideVars, fileVars, segments, uploadVars, analysisVars, returned,
                 feedbackCalls, thrown, execFailed>>

\* mutant: the size of the file is not looked at
MutTooLargeNever(size) == FALSE

\* if (file.size > 200 * 1024 * 1024) throw ..., ahead of the fetch
TooLarge(size) == size > UploadLimitBytes

\* mutant: a failed upload is tried again
MutOnRequestErrorRetriesUpload(request) ==
  IF request = "upload" THEN "retry" ELSE "throw"

\* what analyzeLessonVideo does when uploadFileToGemini or getFileStatus
\* throws: no try/catch surrounds either call in the upload loop
OnRequestError(request) == "throw"

(* uploadFileToGemini(segments[i].file) *)
Upload ==
  /\ pc = "upload"
  /\ i < Len(segments)
  /\ waits' = <<>>
  /\ \/ \* file.size > 200 MB: thrown before fetch
        /\ TooLarge(segments[i + 1].size)
        /\ lastCall' = "none"
        /\ lastError' = None
        /\ events' = events \cup {<<"uploadBegin", i>>}
        /\ Fail("TooLarge")
        /\ Notify(SegmentProgress("uploading", i, Len(segments)))
        /\ UNCHANGED <<fileUri, state, polls>>
     \/ \* !response.ok, or no uri in the answer
        /\ ~TooLarge(segments[i + 1].size)
        /\ lastCall' = "upload"
        /\ lastError' = None
        /\ events' = events \cup {<<"uploadBegin", i>>, <<"uploadRequest", i>>}
        /\ IF OnRequestError("upload") = "throw"
           THEN \E kind \in {"UploadFailed", "NoUri"} : Fail(kind)
           ELSE UNCHANGED <<pc, thrown>>
        /\ Notify(SegmentProgress("uploading", i, Len(segments)))
        /\ UNCHANGED <<fileUri, state, polls>>
     \/ /\ ~TooLarge(segments[i + 1].size)
        /\ lastCall' = "upload"
        /\ lastError' = None
        /\ events' = events \cup {<<"uploadBegin", i>>, <<"uploadRequest", i>>,
                                  <<"uploadReturn", i>>}
        /\ fileUri' = i
        /\ state' = "PROCESSING"
        /\ polls' = 0
        /\ pc' = "poll"
        /\ thrown' = thrown
        /\ NotifyBoth(SegmentProgress("uploading", i, Len(segments)),
                      SegmentProgress("processing", i, Len(segments)))
  /\ UNCHANGED <<outsideVars, fileVars, segments, i, segmentUris, analysisVars, reportVars,
                 execFailed>>

\* mutant: any state that ends the polling loop passes
MutPassesStateCheckWhenDone(answer) == answer # "PROCESSING"

\* if (state !== "ACTIVE") throw ...
PassesStateCheck(answer) == answer = "ACTIVE"

\* mutant: the loop polls until the state is ACTIVE
MutKeepsPollingUntilActive(answer) == answer # "ACTIVE"

\* while (state === "PROCESSING")
KeepsPolling(answer) == answer = "PROCESSING"

(* one turn of the polling loop: the 2 s wait and getFileStatus(fileUri). *)
(* The loop counts nothing.  With `patient` the handle answers PROCESSING  *)
(* at most MaxPolls times and polls counts the requests; without it the    *)
(* handle may answer PROCESSING any number of times and polls stops        *)
(* counting at MaxPolls + 1, which stands for every larger number.         *)
PollStatusOf(patient) ==
  /\ pc = "poll"
  /\ KeepsPolling(state)
  /\ lastCall' = "status"
  /\ lastError' = None
  /\ polls' = IF patient \/ polls <= MaxPolls THEN polls + 1 ELSE polls
  /\ \/ \* !response.ok
        /\ IF OnRequestError("status") = "throw"
           THEN Fail("StatusCheckFailed")
           ELSE UNCHANGED <<pc, thrown>>
        /\ waits' = <<PollIntervalMs>>
        /\ UNCHANGED <<state, segmentUris, i, events>>
     \/ \E answer \in FileStates :
          /\ (patient /\ KeepsPolling(answer)) => polls < MaxPolls
          /\ state' = answer
          /\ waits' = IF PassesStateCheck(answer) /\ i < Len(segments) - 1
                       THEN <<PollIntervalMs, UploadPauseMs>>
                       ELSE <<PollIntervalMs>>
          /\ IF KeepsPolling(answer)
             THEN /\ UNCHANGED <<pc, thrown, segmentUris, i, events>>
             ELSE IF PassesStateCheck(answer)
             THEN /\ segmentUris' = Append(segmentUris, fileUri)
                  /\ events' = events \cup
                       (IF answer = "ACTIVE" THEN {<<"ready", i>>} ELSE {})
                  /\ pc' = AfterReady(i, Len(segments)).pc
                  /\ i' = AfterReady(i, Len(segments)).i
                  /\ thrown' = thrown
             ELSE /\ Fail("ProcessingFailed")
                  /\ UNCHANGED <<segmentUris, i, events>>
  /\ UNCHANGED <<outsideVars, fileVars, segments, fileUri, analysisVars, reportVars,
                 execFailed, notified>>

PollStatus == PollStatusOf(TRUE)

\* mutant: an overloaded call is retried however many have failed
MutOnGenerateErrorNeverGivesUp(e, failures) ==
  IF IsOverloaded(e) THEN "retry" ELSE "throw"

\* mutant: if (attempt > maxRetries) throw e
MutOnGenerateErrorOffByOne(e, failures) ==
  IF IsOverloaded(e)
  THEN (IF failures + 1 > maxRetries THEN "throw" ELSE "retry")
  ELSE "throw"

\* mutant: every error is retried while attempts remain
MutOnGenerateErrorRetriesAll(e, failures) ==
  IF failures + 1 >= maxRetries THEN "throw" ELSE "retry"

\* what analyzeVideoSegment does with an error e of generateContent when
\* `failures` attempts have failed before: "retry" or "throw"
OnGenerateError(e, failures) ==
  IF IsOverloaded(e)
  THEN (IF failures + 1 >= maxRetries THEN "throw" ELSE "retry")
  ELSE "throw"

RECURSIVE Pow2(_)
Pow2(n) == IF n = 0 THEN 1 ELSE 2 * Pow2(n - 1)

\* mutant: the same delay before every retry
MutRetryDelayMsConstant(failures) == RetryBaseMs

\* 2000 * Math.pow(2, attempt - 1), attempt being the failures so far
RetryDelayMs(failures) == RetryBaseMs * Pow2(failures - 1)

\* mutant: every segment is analysed under the first handle
MutAnalysisUriFirst(uris, k) == uris[1]

\* segmentUris[i], the fileUri argument of analyzeVideoSegment
AnalysisUri(uris, k) == uris[k + 1]

\* analyzeVideoSegment is entered for segment i by the first call for it:
\* `let attempt = 0`, and no call has been made for the segment yet
EnteredAttempt == IF <<"analyzeBegin", i>> \in events THEN attempt ELSE 0
EnteredCalls == IF <<"analyzeBegin", i>> \in events THEN genCalls ELSE 0

(* analyzeVideoSegment(segmentUris[i], ...): one generateContent call,   *)
(* answered with an error of `errors` or a response of usages x texts     *)
GenerateAttemptOf(errors, usages, texts) ==
  /\ pc = "analyze"
  /\ i < Len(segments)
  /\ EnteredAttempt < maxRetries
  /\ lastCall' = "generate"
  /\ lastAnalysis' = Some([fileUri |-> AnalysisUri(segmentUris, i), segmentIndex |-> i])
  /\ genCalls' = EnteredCalls + 1
  /\ \/ \* the call throws
        \E e \in errors :
          /\ lastError' = Some(e)
          /\ attempt' = IF IsOverloaded(e) THEN EnteredAttempt + 1 ELSE EnteredAttempt
          /\ IF OnGenerateError(e, EnteredAttempt) = "retry"
             THEN /\ waits' = <<RetryDelayMs(EnteredAttempt + 1)>>
                  /\ UNCHANGED <<pc, thrown>>
             ELSE /\ waits' = <<>>
                  /\ Fail(IF IsOverloaded(e) THEN "Overloaded" ELSE "ApiError")
          /\ events' = events \cup {<<"analyzeBegin", i>>}
          /\ UNCHANGED <<i, segmentResults, tokenTracker, combinedData, responses>>
     \/ \* the call returns a response
        \E usage \in usages, text \in texts :
          /\ lastError' = None
          /\ tokenTracker' = TrackChunkUsage(tokenTracker, usage)
          /\ responses' = Append(responses,
               [call |-> "analysis", chunk |-> i, usage |-> usage, text |-> text])
          /\ IF text.kind = "none"
             THEN /\ Fail("NoData")
                  /\ waits' = <<>>
                  /\ events' = events \cup {<<"analyzeBegin", i>>}
                  /\ attempt' = EnteredAttempt
                  /\ UNCHANGED <<i, segmentResults, combinedData>>
             ELSE IF text.kind = "unparseable"
             THEN /\ Fail("SyntaxError")
                  /\ waits' = <<>>
                  /\ events' = events \cup {<<"analyzeBegin", i>>}
                  /\ attempt' = EnteredAttempt
                  /\ UNCHANGED <<i, segmentResults, combinedData>>
             ELSE LET results == Append(segmentResults,
                        AdjustResult(text.value, segments[i + 1].startTimeSeconds))
                      next == AfterAnalysis(i, Len(segments))
                  IN /\ segmentResults' = results
                     /\ pc' = next.pc
                     /\ i' = next.i
                     /\ attempt' = EnteredAttempt
                     /\ thrown' = thrown
                     /\ waits' = IF i < Len(segments) - 1
                                  THEN <<AnalysisPauseMs>> ELSE <<>>
                     /\ IF next.pc = "feedback"
                        THEN /\ combinedData' = Some(CombineResults(results))
                             /\ events' = events \cup
                                  {<<"analyzeBegin", i>>, <<"analyzeReturn", i>>,
                                   <<"reconcile", Len(results)>>}
                        ELSE /\ combinedData' = combinedData
                             /\ events' = events \cup
                                  {<<"analyzeBegin", i>>, <<"analyzeReturn", i>>}
  /\ LET \* the notification ahead of analyzeVideoSegment, whose retries
         \* notify nothing
         entered == IF <<"analyzeBegin", i>> \in events THEN notified
                    ELSE Delivered(notified,
                           SegmentProgress("analyzing", i, Len(segments)))
     IN notified' = IF pc' = "feedback"
                    THEN Delivered(Delivered(entered,
                           RunProgress("combining", Len(segments))),
                           RunProgress("feedback", Len(segments)))
                    ELSE entered
  /\ UNCHANGED <<outsideVars, fileVars, segments, uploadVars, returned, feedbackCalls, execFailed>>

GenerateAttempt == GenerateAttemptOf(ApiErrors, Usages, ResponseTexts)

(* generateOverallFeedback(combinedData, tokenTracker) and the return,    *)
(* answered with an error or a response of usages x texts                 *)
GenerateFeedbackOf(usages, texts) ==
  /\ pc = "feedback"
  /\ combinedData # None
  /\ lastCall' = "feedback"
  /\ lastError' = None
  /\ waits' = <<>>
  /\ feedbackCalls' = feedbackCalls + 1
  /\ events' = events \cup {<<"synthesize", Len(segments)>>}
  /\ \/ \* the call throws: nothing catches it but the rethrowing catch
        /\ Fail("FeedbackError")
        /\ UNCHANGED <<tokenTracker, returned, responses>>
     \/ \E usage \in usages, text \in texts :
          LET tracker == TrackFeedbackUsage(tokenTracker, usage)
              overallFeedback ==
                IF text = None \/ text = Some("") THEN DefaultFeedback ELSE Get(text)
          IN /\ tokenTracker' = tracker
             /\ responses' = Append(responses,
                  [call |-> "feedback", chunk |-> Len(segments), usage |-> usage,
                   text |-> [kind |-> "feedback", value |-> text]])
             /\ returned' = Some([analysis |-> Get(combinedData),
                                  overallFeedback |-> overallFeedback,
                                  tokenUsage |-> getUsage(tracker)])
             /\ pc' = "done"
             /\ thrown' = thrown
  /\ UNCHANGED <<outsideVars, fileVars, segments, i, uploadVars, attempt, segmentResults,
                 genCalls, lastAnalysis, combinedData, execFailed, notified>>

GenerateFeedback == GenerateFeedbackOf(Usages, FeedbackTexts)

Next ==
  \/ LoadFFmpeg
  \/ GetVideoDuration
  \/ CutSegment
  \/ FinishSegmentation
  \/ Upload
  \/ PollStatus
  \/ GenerateAttempt
  \/ GenerateFeedback

Spec == Init /\ [][Next]_vars

(***************************************************************************)
(* segmentVideo alone, for every duration and segment length in range.     *)
(***************************************************************************)
InitSegment ==
  /\ totalDuration \in 0..MaxPlanDuration
  /\ fileSize = UploadLimitBytes
  /\ segmentDurationSeconds \in 1..MaxPlanLength
  /\ InitRun

NextSegment ==
  \/ LoadFFmpeg
  \/ GetVideoDuration
  \/ CutSegment
  \/ FinishSegmentation

SpecSegment == InitSegment /\ [][NextSegment]_vars

(***************************************************************************)
(* Steps 3 to 5 of analyzeLessonVideo from the state in which every        *)
(* segment of a recording is uploaded and ACTIVE, with a wider choice of   *)
(* responses.                                                              *)
(***************************************************************************)
TallyValues == 0..MaxTally

CombineTallies == {<<a, b, c>> : a \in TallyValues, b \in TallyValues, c \in TallyValues}

CombineItems ==
  {Item("Teacher", TxtWhatIs, Ts0458, 4),
   Item("Teacher", TxtWhatIsLower, Ts0003, 0),
   Item("Student", TxtWhatIsLower, Ts0003, 6),
   Item("Teacher", TxtFiveA, Ts0003, 5),
   Item("Teacher", TxtFiveB, Ts000458, 0 - 1)}

\* the tallies vary with no entries, the entries with one tally
CombinePayloads ==
  {Payload(t, <<>>) : t \in CombineTallies}
    \cup {Payload(<<1, 1, 1>>, its) : its \in SeqsUpTo(CombineItems, MaxCombineEntries)}

CombineTexts == {[kind |-> "json", value |-> p] : p \in CombinePayloads}

CombineDuration == MaxDurationUnits * DurationUnit

\* the state of a run on a recording of `duration` seconds when its last
\* segment was seen ACTIVE
\* what the sink has been told when the n segments are all ACTIVE
NotifiedBeforeAnalysis(n) ==
  [j \in 1..(2 * n + 1) |->
     IF j = 1 THEN SegmentationProgress
     ELSE SegmentProgress(IF j % 2 = 0 THEN "uploading" ELSE "processing",
                          (j - 2) \div 2, n)]

InitAnalysis(duration) ==
  LET n == NumSegments(duration, CHUNK_DURATION_MINUTES * 60)
  IN /\ InitApp
     /\ InitCutter
     /\ InitStamp(Ts0003)
     /\ totalDuration = duration
     /\ fileSize = UploadLimitBytes
     /\ segmentDurationSeconds = CHUNK_DURATION_MINUTES * 60
     /\ segments = [k \in 1..n |->
          PlannedSegment(k - 1, duration, CHUNK_DURATION_MINUTES * 60,
                         UploadLimitBytes)]
     /\ pc = "analyze"
     /\ i = 0
     /\ fileUri = n - 1
     /\ segmentUris = [k \in 1..n |-> k - 1]
     /\ state = "ACTIVE"
     /\ polls = 1
     /\ attempt = 0
     /\ segmentResults = <<>>
     /\ tokenTracker = NewTokenTracker
     /\ combinedData = None
     /\ returned = None
     /\ thrown = "none"
     /\ execFailed = FALSE
     /\ genCalls = 0
     /\ feedbackCalls = 0
     /\ lastCall = "status"
     /\ lastError = None
     /\ waits = <<PollIntervalMs>>
     /\ responses = <<>>
     /\ lastAnalysis = None
     /\ events = {<<e, k>> : e \in {"uploadBegin", "uploadRequest", "uploadReturn", "ready"},
                             k \in 0..(n - 1)}
     /\ onProgress = TRUE
     /\ notified = NotifiedBeforeAnalysis(n)

InitCombine == InitAnalysis(CombineDuration)

NextCombine ==
  \/ GenerateAttemptOf({}, {None}, CombineTexts)
  \/ GenerateFeedbackOf({None}, {None})

SpecCombine == InitCombine /\ [][NextCombine]_vars

(***************************************************************************)
(* Steps 3 to 5 for a recording of one segment whose response holds up to  *)
(* MaxDedupEntries entries, in any order, with timestamps at and next to   *)
(* the ends of the two windows.                                            *)
(***************************************************************************)
TxtFiveC == <<"a", " ", "b", " ", "c", " ", "x", " ", "e">>

Ts0013 == <<"0", "0", ":", "1", "3">>
Ts0014 == <<"0", "0", ":", "1", "4">>
Ts0018 == <<"0", "0", ":", "1", "8">>
Ts0019 == <<"0", "0", ":", "1", "9">>

DedupItems ==
  {Item("Teacher", TxtWhatIs, Ts0003, 4),
   Item("Teacher", TxtWhatIsLower, Ts0013, 0),
   Item("Teacher", TxtWhatIsLower, Ts0014, 6),
   Item("Student", TxtWhatIs, Ts0018, 0 - 1),
   Item("Teacher", TxtWhatIs, Ts0019, 5),
   Item("Teacher", TxtFiveA, Ts0003, 2),
   Item("Teacher", TxtFiveB, Ts0013, 3),
   Item("Teacher", TxtFiveC, Ts0013, 1)}

DedupTexts ==
  {[kind |-> "json", value |-> Payload(<<1, 1, 1>>, its)] :
     its \in SeqsUpTo(DedupItems, MaxDedupEntries)}

DedupDuration == CHUNK_DURATION_MINUTES * 60

InitDedup == InitAnalysis(DedupDuration)

NextDedup ==
  \/ GenerateAttemptOf({}, {None}, DedupTexts)
  \/ GenerateFeedbackOf({None}, {None})

SpecDedup == InitDedup /\ [][NextDedup]_vars

(***************************************************************************)
(* The run with a handle that may stay PROCESSING for any number of polls, *)
(* under the conditions of termination: every request is answered and the  *)
(* continuation runs (weak fairness of the steps), and a handle that is    *)
(* polled again and again is at some poll no longer PROCESSING (strong     *)
(* fairness of the poll that leaves PROCESSING).                           *)
(***************************************************************************)
PollStatusAnyTimes == PollStatusOf(FALSE)

\* a poll after which the loop ends: another state, or a failed request
LeavesProcessing == PollStatusAnyTimes /\ (state' # "PROCESSING" \/ pc' = "failed")

InitLive ==
  /\ totalDuration \in Durations
  /\ fileSize = UploadLimitBytes
  /\ segmentDurationSeconds = CHUNK_DURATION_MINUTES * 60
  /\ InitRun

NextLive ==
  \/ LoadFFmpeg
  \/ GetVideoDuration
  \/ CutSegment
  \/ FinishSegmentation
  \/ Upload
  \/ PollStatusAnyTimes
  \/ GenerateAttempt
  \/ GenerateFeedback

SpecLive ==
  InitLive /\ [][NextLive]_vars /\ WF_vars(NextLive) /\ SF_vars(LeavesProcessing)

(***************************************************************************)
(* The App component: handleFileSelect, its handleProgress callback, the   *)
(* two continuations of its await, and reset.  A call of                   *)
(* analyzeLessonVideo is seen from outside: the progress it reports, in    *)
(* order, and the way it settles.                                          *)
(***************************************************************************)
\* files selected in one session
MaxRuns == 2

FileNames == {"a.mp4", "b.mp4"}

\* the phases analyzeLessonVideo reports for a recording of one segment
ProgressPhases ==
  <<"segmenting", "uploading", "processing", "analyzing", "combining", "feedback">>

\* what analyzeLessonVideo may reject with: an Error with its message and
\* whether the message contains "413", or a value that is no Error
Rejections ==
  {[isError |-> TRUE, message |-> "Failed to process video segment 1", mentions413 |-> FALSE],
   [isError |-> TRUE, message |-> "Upload failed: 413", mentions413 |-> TRUE],
   [isError |-> FALSE, message |-> "", mentions413 |-> FALSE]}

\* the switch of handleProgress
StatusOfPhase(phase) ==
  CASE phase = "segmenting" -> "SEGMENTING"
    [] phase \in {"uploading", "processing"} -> "UPLOADING"
    [] OTHER -> "ANALYZING"

\* errorMessage of the catch block
ErrorMessage(err) ==
  IF ~err.isError THEN "An unexpected error occurred."
  ELSE IF err.mentions413
       THEN "The file is too large for this browser-based demo. Please try a smaller or lower resolution video."
       ELSE err.message

\* the calls of analyzeLessonVideo that have not settled
InFlight == {r \in 1..Len(runs) : ~runs[r].settled}

(* handleFileSelect up to its await; FileUpload is rendered while IDLE *)
HandleFileSelect ==
  /\ appState.status = "IDLE"
  /\ Len(runs) < MaxRuns
  /\ \E name \in FileNames :
       /\ fileName' = name
       /\ runs' = Append(runs, [file |-> name, step |-> 0, settled |-> FALSE])
  /\ appState' = [status |-> "SEGMENTING", data |-> None, error |-> None,
                  progress |-> None]
  /\ lastWriter' = Len(runs) + 1
  /\ UNCHANGED <<pipelineVars, cutterVars, stampVars>>

(* handleProgress, called by the run r with its next phase *)
HandleProgress ==
  \E r \in InFlight :
    /\ runs[r].step < Len(ProgressPhases)
    /\ LET phase == ProgressPhases[runs[r].step + 1]
       IN appState' = [appState EXCEPT !.status = StatusOfPhase(phase),
                                       !.progress = Some([phase |-> phase])]
    /\ runs' = [runs EXCEPT ![r].step = @ + 1]
    /\ lastWriter' = r
    /\ UNCHANGED <<pipelineVars, cutterVars, stampVars, fileName>>

(* the await of run r resolves: setState COMPLETE *)
AnalysisResolved ==
  \E r \in InFlight :
    /\ runs[r].step = Len(ProgressPhases)
    /\ appState' = [status |-> "COMPLETE",
                    data |-> Some([file |-> runs[r].file, run |-> r]),
                    error |-> None, progress |-> None]
    /\ runs' = [runs EXCEPT ![r].settled = TRUE]
    /\ lastWriter' = r
    /\ UNCHANGED <<pipelineVars, cutterVars, stampVars, fileName>>

(* the await of run r rejects: the catch block *)
AnalysisRejected ==
  \E r \in InFlight, err \in Rejections :
    /\ appState' = [status |-> "ERROR", data |-> None,
                    error |-> Some(ErrorMessage(err)), progress |-> None]
    /\ runs' = [runs EXCEPT ![r].settled = TRUE]
    /\ lastWriter' = r
    /\ UNCHANGED <<pipelineVars, cutterVars, stampVars, fileName>>

(* reset: the header is clickable in every state *)
Reset ==
  /\ appState' = IdleState
  /\ fileName' = ""
  /\ lastWriter' = 0
  /\ UNCHANGED <<pipelineVars, cutterVars, stampVars, runs>>

InitUI ==
  /\ totalDuration = 0
  /\ fileSize = UploadLimitBytes
  /\ segmentDurationSeconds = CHUNK_DURATION_MINUTES * 60
  /\ InitRun

NextUI ==
  \/ HandleFileSelect
  \/ HandleProgress
  \/ AnalysisResolved
  \/ AnalysisRejected
  \/ Reset

SpecUI == InitUI /\ [][NextUI]_vars

(***************************************************************************)
(* Properties.                                                             *)
(***************************************************************************)
Happened(e, k) == <<e, k>> \in events

\* the number of segments of the run's recording
N == NumSegments(totalDuration, segmentDurationSeconds)

\* C1 as stated: the upload of chunk k+1 begins only after the analysis of
\* chunk k has returned.
C1_UploadWaitsForPreviousAnalysis ==
  \A k \in 0..(N - 1) :
    Happened("uploadBegin", k + 1) => Happened("analyzeReturn", k)

\* C1, amended: the run is strictly sequential in two phases.  The upload
\* of chunk k+1 begins only after chunk k was seen ACTIVE, the analysis of
\* chunk k+1 begins only after the analysis of chunk k has returned, and no
\* analysis begins before every chunk was seen ACTIVE.
C1_TwoPhaseSequential ==
  \A k \in 0..(N - 1) :
    /\ Happened("uploadBegin", k + 1) => Happened("ready", k)
    /\ Happened("analyzeBegin", k + 1) => Happened("analyzeReturn", k)
    /\ Happened("analyzeBegin", k) => \A j \in 0..(N - 1) : Happened("ready", j)

C1_Witness ==
  /\ Happened("uploadBegin", 1)
  /\ Happened("analyzeBegin", 1)
  /\ ~Happened("analyzeReturn", 1)

\* C2 as stated: once every chunk of a recording is analysed and the
\* synthesis call has been made, whatever its outcome, the run completes
\* and returns a report that carries the combined metrics and timelines.
C2_SynthesisFailureIsSoft ==
  (feedbackCalls > 0 /\ N > 0) =>
    /\ pc = "done"
    /\ returned # None
    /\ Get(returned).analysis = Get(combinedData)

\* the latest step was a generateContent call with which analyzeVideoSegment
\* returned normally
AnalysisJustReturned ==
  /\ lastCall = "generate"
  /\ pc \in {"analyze", "feedback"}
  /\ ~Happened("analyzeBegin", i)

\* C3: at most 3 generateContent calls are made for one chunk; after the
\* third overloaded failure the run has failed with that error, and a
\* call that returns normally after f overloaded failures is call f + 1
\* (after 2 failures: exactly 3 calls).
C3_AtMostThreeCalls ==
  /\ genCalls <= 3
  /\ attempt <= 3
  /\ attempt = 3 => (pc = "failed" /\ thrown = "Overloaded" /\ genCalls = 3)
  /\ AnalysisJustReturned => genCalls = attempt + 1

C3_Witness == AnalysisJustReturned /\ attempt = 2 /\ genCalls = 3

\* some parsed analysis response lacks a property of the segment schema
ShapeFailure ==
  \E k \in 1..Len(segmentResults) :
    \/ segmentResults[k].teacherTalkSeconds = None
    \/ segmentResults[k].studentTalkSeconds = None
    \/ segmentResults[k].silenceSeconds = None
    \/ segmentResults[k].qaPairs = None
    \/ segmentResults[k].transcript = None

\* a required step has failed: something was thrown before the synthesis,
\* the cutting tool exited with a non-zero status, or an analysis response
\* did not parse into the segment schema
RequiredStepFailed ==
  \/ pc = "failed" /\ thrown # "FeedbackError"
  \/ execFailed
  \/ ShapeFailure

\* C4 as stated: once a required step has failed the run does not
\* complete and returns no report.
C4_RequiredStepFailureIsFatal ==
  RequiredStepFailed => (pc # "done" /\ returned = None)

\* the report a completed run has returned
Report == Get(returned).analysis

\* the similarity rule for two utterances: same speaker, timestamps at
\* most 10 s apart, similar text
NearDuplicateUtterances(a, b) ==
  /\ a.speaker = b.speaker
  /\ Abs(parseTimestamp(a.timestamp) - parseTimestamp(b.timestamp)) <= 10
  /\ areTextsSimilar(a.text, b.text)

\* the similarity rule for two interactions (they carry no speaker):
\* timestamps at most 15 s apart, similar question
NearDuplicateInteractions(a, b) ==
  /\ Abs(parseTimestamp(a.timestamp) - parseTimestamp(b.timestamp)) <= 15
  /\ areTextsSimilar(a.question, b.question)

\* C5: in a returned report no two utterances and no two interactions are
\* near-duplicates of each other, in either order.
C5_NoNearDuplicatesInReport ==
  returned # None =>
    /\ \A a, b \in 1..Len(Report.transcript) :
         a # b => ~NearDuplicateUtterances(Report.transcript[a], Report.transcript[b])
    /\ \A a, b \in 1..Len(Report.qaPairs) :
         a # b => ~NearDuplicateInteractions(Report.qaPairs[a], Report.qaPairs[b])

\* a report from which a near-duplicate utterance and a near-duplicate
\* interaction of another segment were dropped
C5_Witness ==
  /\ returned # None
  /\ Len(Report.transcript) >= 2
  /\ Len(Report.transcript) < Len(AllTranscript(segmentResults))
  /\ Len(Report.qaPairs) < Len(AllQaPairs(segmentResults))

\* segmentVideo has returned its segments
SegmentationDone == pc \notin {"load", "duration", "cut", "cleanup", "failed"}

SegmentLength(seg) == seg.endTimeSeconds - seg.startTimeSeconds

\* C6: for a positive duration and segment length the segments are
\* contiguous, start at 0, end at the duration, have positive lengths that
\* sum to the duration, and all but the last have the segment length.
C6_SegmentsTileTheRecording ==
  (SegmentationDone /\ totalDuration > 0 /\ segmentDurationSeconds > 0) =>
    /\ Len(segments) >= 1
    /\ segments[1].startTimeSeconds = 0
    /\ segments[Len(segments)].endTimeSeconds = totalDuration
    /\ \A k \in 1..Len(segments) :
         /\ segments[k].index = k - 1
         /\ SegmentLength(segments[k]) > 0
         /\ k < Len(segments) =>
              /\ segments[k + 1].startTimeSeconds = segments[k].endTimeSeconds
              /\ SegmentLength(segments[k]) = segmentDurationSeconds
    /\ SumOf([k \in 1..Len(segments) |-> SegmentLength(segments[k])]) = totalDuration

C6_Witness ==
  /\ SegmentationDone
  /\ Len(segments) = 3
  /\ SegmentLength(segments[3]) < segmentDurationSeconds

\* the lengths of the segments planned for a duration and a segment length
PlannedLengths(total, segLen) ==
  [k \in 1..NumSegments(total, segLen) |->
     SegmentLength(PlannedSegment(k - 1, total, segLen, 0))]

\* C7: the number of segments is the least n with n * length >= duration
\* (the ceiling of duration / length), so an exact multiple gives exactly
\* duration / length segments and no empty one; 1000 s at 300 s gives 4
\* segments, the last of 100 s, and 720 s at 300 s gives 300, 300, 120.
C7_SegmentCountIsCeiling ==
  /\ SegmentationDone =>
       /\ Len(segments) * segmentDurationSeconds >= totalDuration
       /\ (Len(segments) - 1) * segmentDurationSeconds < totalDuration
            \/ Len(segments) = 0
       /\ totalDuration % segmentDurationSeconds = 0 =>
            Len(segments) * segmentDurationSeconds = totalDuration
  /\ PlannedLengths(1000, 300) = <<300, 300, 300, 100>>
  /\ PlannedLengths(720, 300) = <<300, 300, 120>>

C7_Witness ==
  /\ SegmentationDone
  /\ Len(segments) = 2
  /\ totalDuration = 2 * segmentDurationSeconds

\* the raw tallies of all segment results, summed (an absent tally is 0)
RawTally(field) ==
  SumOf([k \in 1..Len(segmentResults) |->
           IF segmentResults[k][field] = None THEN 0 ELSE Get(segmentResults[k][field])])

RawTotal ==
  RawTally("teacherTalkSeconds") + RawTally("studentTalkSeconds")
    + RawTally("silenceSeconds")

\* the sum of the three percentages of the report, in tenths
PercentageSum ==
  Report.teacherTalkTimePercentage + Report.studentTalkTimePercentage
    + Report.silenceOrGroupWorkPercentage

\* C8: in a returned report the three percentages sum to 100 within 0.1
\* when the summed tallies are positive, and are all 0 when the sum is 0.
C8_PercentagesSumTo100 ==
  returned # None =>
    IF RawTotal > 0
    THEN Abs(PercentageSum - 1000) <= 1
    ELSE /\ Report.teacherTalkTimePercentage = 0
         /\ Report.studentTalkTimePercentage = 0
         /\ Report.silenceOrGroupWorkPercentage = 0

\* a report whose percentages are each rounded up: they sum to 100.1
C8_Witness == returned # None /\ RawTotal > 0 /\ PercentageSum = 1001

\* C9: a run completes only after each of its N chunks was uploaded, seen
\* ACTIVE and analysed; the results are combined only after the last
\* analysis has returned; the feedback call is made at most once, only
\* after the results were combined, exactly once in a completed run, and
\* never in a run that failed before it.
C9_CompleteOnlyAfterAllChunks ==
  /\ pc = "done" =>
       /\ Len(segments) = N
       /\ Len(segmentResults) = N
       /\ \A k \in 0..(N - 1) :
            /\ Happened("uploadReturn", k)
            /\ Happened("ready", k)
            /\ Happened("analyzeReturn", k)
       /\ feedbackCalls = 1
  /\ (combinedData # None \/ Happened("reconcile", N)) =>
       /\ Len(segmentResults) = N
       /\ \A k \in 0..(N - 1) : Happened("analyzeReturn", k)
  /\ feedbackCalls <= 1
  /\ feedbackCalls = 1 => (combinedData # None /\ Happened("reconcile", N))
  /\ (pc = "failed" /\ thrown # "FeedbackError") => feedbackCalls = 0

C9_Witness == pc = "done" /\ N = 2 /\ feedbackCalls = 1

\* C10: for every chunk, polling starts only after the upload returned a
\* handle, the handle polled is that of the chunk, and the analysis of the
\* chunk begins only after its handle was seen ACTIVE and stored for it.
C10_UploadPollAnalyzeOrder ==
  /\ pc = "poll" => (Happened("uploadReturn", i) /\ fileUri = i)
  /\ \A k \in 0..(N - 1) :
       /\ Happened("ready", k) => Happened("uploadReturn", k)
       /\ Happened("uploadReturn", k) => Happened("uploadBegin", k)
       /\ Happened("analyzeBegin", k) =>
            /\ Happened("ready", k)
            /\ Len(segmentUris) > k
            /\ segmentUris[k + 1] = k

C10_Witness ==
  /\ Happened("analyzeBegin", 1)
  /\ pc = "analyze"
  /\ i = 1

\* the number of times the timeout d was awaited in the latest step
TimesAwaited(d) == Cardinality({k \in 1..Len(waits) : waits[k] = d})

\* C11: the handle is polled for as long as its state is PROCESSING, each
\* status request after one poll interval of 2 s, and the polling stops at
\* the first ACTIVE or FAILED state.  ACTIVE stores the handle and lets
\* the run go on; FAILED fails the whole run with the processing error:
\* the chunk is not stored, no later chunk is uploaded and no chunk is
\* analysed.
C11_PollUntilReadyOrFailed ==
  /\ pc = "poll" => state = "PROCESSING"
  /\ (lastCall = "status" /\ state = "PROCESSING" /\ pc # "failed") => pc = "poll"
  /\ lastCall = "status" =>
       /\ polls >= 1
       /\ waits[1] = PollIntervalMs
       /\ TimesAwaited(PollIntervalMs) = 1
  /\ state = "ACTIVE" =>
       /\ Happened("ready", fileUri)
       /\ Len(segmentUris) = fileUri + 1
       /\ lastCall = "status" => (pc \in {"upload", "analyze"} /\ thrown = "none")
  /\ state = "FAILED" =>
       /\ pc = "failed"
       /\ thrown = "ProcessingFailed"
       /\ returned = None
       /\ Len(segmentUris) = i
       /\ \A k \in 0..(N - 1) :
            /\ k >= i => ~Happened("ready", k)
            /\ k > i => ~Happened("uploadBegin", k)
            /\ ~Happened("analyzeBegin", k)

\* the second chunk is reported FAILED after two PROCESSING answers
C11_Witness ==
  /\ state = "FAILED"
  /\ i = 1
  /\ polls = 3
  /\ Happened("ready", 0)

Range(list) == {list[k] : k \in 1..Len(list)}

\* the sorted sequences the dedup scans have run over
SortedUtterances == SortByTimestamp(AllTranscript(segmentResults))
SortedInteractions == SortByTimestamp(AllQaPairs(segmentResults))

\* the accepted entries when the scan reaches position k of `sorted`
AcceptedBefore(sorted, accepted, k) ==
  {sorted[j] : j \in 1..(k - 1)} \cap Range(accepted)

\* the scan of `sorted` with the rule Dup has accepted `accepted`: no entry
\* is accepted twice, a candidate for which some already-accepted entry
\* meets the rule is not accepted, and every other candidate is accepted
ScanFollowsRule(sorted, accepted, Dup(_, _)) ==
  /\ Range(accepted) \subseteq Range(sorted)
  /\ Cardinality(Range(accepted)) = Len(accepted)
  /\ \A k \in 1..Len(sorted) :
       LET before == AcceptedBefore(sorted, accepted, k)
       IN IF \E e \in before : Dup(e, sorted[k])
          THEN sorted[k] \in Range(accepted) => sorted[k] \in before
          ELSE sorted[k] \in Range(accepted)

\* C12: scanning the sorted sequence from the left, a candidate is dropped
\* when some already-accepted entry has the same speaker (utterances; an
\* interaction has no speaker), a timestamp at most 10 s (utterances) or
\* 15 s (interactions) away, the boundary included, and similar text;
\* every other candidate is accepted.
C12_DropRule ==
  returned # None =>
    /\ ScanFollowsRule(SortedUtterances, Report.transcript, NearDuplicateUtterances)
    /\ ScanFollowsRule(SortedInteractions, Report.qaPairs, NearDuplicateInteractions)

\* an utterance exactly 10 s after a similar one of the same speaker is
\* dropped while the interaction 16 s after a similar one is accepted
C12_Witness ==
  /\ returned # None
  /\ Len(SortedUtterances) = 3
  /\ \E a, b \in 1..3 :
       /\ parseTimestamp(SortedUtterances[b].timestamp)
            - parseTimestamp(SortedUtterances[a].timestamp) = TranscriptWindow
       /\ SortedUtterances[a] \in Range(Report.transcript)
       /\ SortedUtterances[b] \notin Range(Report.transcript)
  /\ \E a, b \in 1..3 :
       /\ parseTimestamp(SortedInteractions[b].timestamp)
            - parseTimestamp(SortedInteractions[a].timestamp) = QaWindow + 1
       /\ areTextsSimilar(SortedInteractions[a].question, SortedInteractions[b].question)
       /\ SortedInteractions[a] \in Range(Report.qaPairs)
       /\ SortedInteractions[b] \in Range(Report.qaPairs)

\* the entries of all responses as they were gathered, before the sort
GatheredUtterances == AllTranscript(segmentResults)
GatheredInteractions == AllQaPairs(segmentResults)

\* C13: dedup applied to its own output returns that output unchanged, for
\* utterances and for interactions, whether the input was sorted or not;
\* in particular the lists of a returned report are fixed points of dedup.
C13_DedupIdempotent ==
  /\ \A input \in {GatheredUtterances, SortedUtterances} :
       deduplicateTranscript(deduplicateTranscript(input)) = deduplicateTranscript(input)
  /\ \A input \in {GatheredInteractions, SortedInteractions} :
       deduplicateQaPairs(deduplicateQaPairs(input)) = deduplicateQaPairs(input)
  /\ returned # None =>
       /\ deduplicateTranscript(Report.transcript) = Report.transcript
       /\ deduplicateQaPairs(Report.qaPairs) = Report.qaPairs

\* a chain: the second utterance repeats the first and was dropped, the
\* third repeats the second but not the first and was kept
C13_Witness ==
  /\ returned # None
  /\ Len(SortedUtterances) = 3
  /\ NearDuplicateUtterances(SortedUtterances[1], SortedUtterances[2])
  /\ NearDuplicateUtterances(SortedUtterances[2], SortedUtterances[3])
  /\ ~NearDuplicateUtterances(SortedUtterances[1], SortedUtterances[3])
  /\ Report.transcript = <<SortedUtterances[1], SortedUtterances[3]>>
  /\ Len(Report.qaPairs) < Len(SortedInteractions)

\* the whitespace-separated tokens of a normalised text
Tokens(text) == WordSet(normalizeText(text))

\* less than 80% of the larger token set is shared
TokenOverlapBelow80(text1, text2) ==
  5 * Cardinality(Tokens(text1) \cap Tokens(text2))
    < 4 * Max(Cardinality(Tokens(text1)), Cardinality(Tokens(text2)))

\* the texts are not equal after normalisation, neither contains the
\* other, and their token overlap is below 80%
TextsDissimilar(text1, text2) ==
  /\ normalizeText(text1) # normalizeText(text2)
  /\ ~Includes(normalizeText(text1), normalizeText(text2))
  /\ ~Includes(normalizeText(text2), normalizeText(text1))
  /\ TokenOverlapBelow80(text1, text2)

SecondsApart(a, b) == Abs(parseTimestamp(a.timestamp) - parseTimestamp(b.timestamp))

\* C14 as stated: of two entries that differ in speaker, or are further
\* apart than the window, or have less than 80% token overlap, both
\* survive dedup.
C14_LowOverlapPairsSurvive ==
  returned # None =>
    /\ (/\ Len(SortedUtterances) = 2
        /\ \/ SortedUtterances[1].speaker # SortedUtterances[2].speaker
           \/ SecondsApart(SortedUtterances[1], SortedUtterances[2]) > 10
           \/ TokenOverlapBelow80(SortedUtterances[1].text, SortedUtterances[2].text))
         => Report.transcript = SortedUtterances
    /\ (/\ Len(SortedInteractions) = 2
        /\ \/ SecondsApart(SortedInteractions[1], SortedInteractions[2]) > 15
           \/ TokenOverlapBelow80(SortedInteractions[1].question,
                                  SortedInteractions[2].question))
         => Report.qaPairs = SortedInteractions

\* C14, amended: of two entries that differ in speaker (utterances), or
\* are further apart than the window (10 s utterances, 15 s interactions),
\* or whose texts are dissimilar (not equal after normalisation, neither
\* containing the other, token overlap below 80%), both survive dedup;
\* in a longer input an entry survives when this holds between it and
\* every entry before it.
C14_NonDuplicatePairsSurvive ==
  returned # None =>
    /\ \A k \in 1..Len(SortedUtterances) :
         (\A j \in 1..(k - 1) :
            \/ SortedUtterances[j].speaker # SortedUtterances[k].speaker
            \/ SecondsApart(SortedUtterances[j], SortedUtterances[k]) > 10
            \/ TextsDissimilar(SortedUtterances[j].text, SortedUtterances[k].text))
           => SortedUtterances[k] \in Range(Report.transcript)
    /\ \A k \in 1..Len(SortedInteractions) :
         (\A j \in 1..(k - 1) :
            \/ SecondsApart(SortedInteractions[j], SortedInteractions[k]) > 15
            \/ TextsDissimilar(SortedInteractions[j].question,
                               SortedInteractions[k].question))
           => SortedInteractions[k] \in Range(Report.qaPairs)
    /\ (Len(SortedUtterances) = 2 /\ Len(Report.transcript) < 2) =>
         /\ SortedUtterances[1].speaker = SortedUtterances[2].speaker
         /\ SecondsApart(SortedUtterances[1], SortedUtterances[2]) <= 10
         /\ ~TextsDissimilar(SortedUtterances[1].text, SortedUtterances[2].text)

\* two utterances of one speaker at the same time that share 3 of their 5
\* tokens, and the two interactions made of them, all survive
C14_Witness ==
  /\ returned # None
  /\ Len(SortedUtterances) = 2
  /\ SortedUtterances[1].speaker = SortedUtterances[2].speaker
  /\ SecondsApart(SortedUtterances[1], SortedUtterances[2]) = 0
  /\ Cardinality(Tokens(SortedUtterances[1].text) \cap Tokens(SortedUtterances[2].text)) = 3
  /\ TextsDissimilar(SortedUtterances[1].text, SortedUtterances[2].text)
  /\ Report.transcript = SortedUtterances
  /\ Report.qaPairs = SortedInteractions

\* the position at which e was gathered first
FirstIndex(list, e) ==
  CHOOSE k \in 1..Len(list) : list[k] = e /\ \A j \in 1..(k - 1) : list[j] # e

\* `list` is in non-decreasing order of timestamp, and its entries with
\* equal timestamps are in the order in which `gathered` holds them
OrderedLike(list, gathered) ==
  \A a, b \in 1..Len(list) :
    a < b =>
      /\ parseTimestamp(list[a].timestamp) <= parseTimestamp(list[b].timestamp)
      /\ parseTimestamp(list[a].timestamp) = parseTimestamp(list[b].timestamp)
           => FirstIndex(gathered, list[a]) < FirstIndex(gathered, list[b])

\* C15: in a returned report the utterances and the interactions are each
\* in non-decreasing order of absolute timestamp, and entries with equal
\* timestamps keep the order in which they were gathered (chunk order,
\* then the order within the chunk's response).
C15_ReportListsOrdered ==
  returned # None =>
    /\ OrderedLike(Report.transcript, GatheredUtterances)
    /\ OrderedLike(Report.qaPairs, GatheredInteractions)

\* a report of four utterances from two chunks, two of them with equal
\* timestamps, which were not gathered in timestamp order
C15_Witness ==
  /\ returned # None
  /\ Len(Report.transcript) = 4
  /\ GatheredUtterances # SortedUtterances
  /\ \E a \in 1..3 :
       parseTimestamp(Report.transcript[a].timestamp)
         = parseTimestamp(Report.transcript[a + 1].timestamp)
  /\ Len(Report.qaPairs) >= 3
  /\ GatheredInteractions # SortedInteractions

\* the parsed response of chunk k (1-based) as generateContent returned it
RawResult(k) ==
  responses[CHOOSE j \in 1..Len(responses) :
              /\ responses[j].call = "analysis"
              /\ responses[j].chunk = k - 1
              /\ responses[j].text.kind = "json"].text.value

AllDigits(part) == \A k \in 1..Len(part) : IsDigit(part[k])

\* ts reads MM:SS, with at least two digits each and SS below 60, and
\* stands for `seconds`
ReadsAsMinutesSeconds(ts, seconds) ==
  LET parts == Split(ts, ":")
  IN /\ Len(parts) = 2
     /\ Len(parts[1]) >= 2 /\ AllDigits(parts[1])
     /\ Len(parts[2]) = 2 /\ AllDigits(parts[2])
     /\ DigitsValue(parts[2]) < 60
     /\ 60 * DigitsValue(parts[1]) + DigitsValue(parts[2]) = seconds

\* the list `moved` is the list `raw` with every timestamp moved by offset
MovedBy(raw, moved, offset) ==
  /\ Len(moved) = Len(raw)
  /\ \A e \in 1..Len(raw) :
       /\ ReadsAsMinutesSeconds(moved[e].timestamp,
                                parseTimestamp(raw[e].timestamp) + offset)
       /\ [moved[e] EXCEPT !.timestamp = raw[e].timestamp] = raw[e]

Ts0215 == <<"0", "2", ":", "1", "5">>
Ts0715 == <<"0", "7", ":", "1", "5">>

\* C16: the remapped timestamp stands for the seconds of the local
\* timestamp plus the offset, remap("02:15", 300) = "07:15", and every
\* utterance and interaction of chunk i is remapped with the start offset
\* of chunk i, nothing else of the entry being changed.
C16_RemapAddsChunkOffset ==
  /\ adjustTimestamp(Ts0215, 300) = Ts0715
  /\ \A k \in 1..Len(segmentResults) :
       /\ RawResult(k).transcript # None =>
            MovedBy(Get(RawResult(k).transcript), Get(segmentResults[k].transcript),
                    segments[k].startTimeSeconds)
       /\ RawResult(k).qaPairs # None =>
            MovedBy(Get(RawResult(k).qaPairs), Get(segmentResults[k].qaPairs),
                    segments[k].startTimeSeconds)
       /\ RawResult(k).transcript = None => segmentResults[k].transcript = None
       /\ RawResult(k).qaPairs = None => segmentResults[k].qaPairs = None

\* the second chunk, which starts at 300 s, returned an entry at 00:04:58
\* and one at 00:03: they are held as 09:58 and 05:03
C16_Witness ==
  /\ Len(segmentResults) = 2
  /\ segments[2].startTimeSeconds = 300
  /\ Len(Get(segmentResults[2].qaPairs)) = 2
  /\ Get(RawResult(2).qaPairs)[1].timestamp = Ts000458
  /\ parseTimestamp(Get(segmentResults[2].qaPairs)[1].timestamp) = 598
  /\ Get(RawResult(2).qaPairs)[2].timestamp = Ts0003
  /\ parseTimestamp(Get(segmentResults[2].qaPairs)[2].timestamp) = 303

\* C17 as stated: every timestamp of a returned report stands for an
\* offset within [0, totalDuration], whatever the responses held.
C17_TimestampsWithinRecording ==
  returned # None =>
    /\ \A e \in 1..Len(Report.transcript) :
         /\ 0 <= parseTimestamp(Report.transcript[e].timestamp)
         /\ parseTimestamp(Report.transcript[e].timestamp) <= totalDuration
    /\ \A e \in 1..Len(Report.qaPairs) :
         /\ 0 <= parseTimestamp(Report.qaPairs[e].timestamp)
         /\ parseTimestamp(Report.qaPairs[e].timestamp) <= totalDuration

\* v is num / den rounded to the nearest integer, halves upwards
IsRounded(v, num, den) ==
  /\ (2 * v - 1) * den <= 2 * num
  /\ 2 * num < (2 * v + 1) * den

RECURSIVE PositiveWaitSum(_, _)
\* the sum of the positive waits of the first k interactions of `list`
PositiveWaitSum(list, k) ==
  IF k = 0 THEN 0
  ELSE PositiveWaitSum(list, k - 1)
         + (IF list[k].waitTimeSeconds > 0 THEN list[k].waitTimeSeconds ELSE 0)

PositiveWaitCount(list) ==
  Cardinality({k \in 1..Len(list) : list[k].waitTimeSeconds > 0})

WaitsOf(list) == [k \in 1..Len(list) |-> list[k].waitTimeSeconds]

\* four interactions with the waits 4, 0, 6 and -1
ExampleWaits ==
  <<QaEntry(Item("Teacher", TxtWhatIs, Ts0003, 4)),
    QaEntry(Item("Teacher", TxtFiveA, Ts0003, 0)),
    QaEntry(Item("Teacher", TxtWhatIs, Ts0458, 6)),
    QaEntry(Item("Teacher", TxtFiveA, Ts0458, 0 - 1))>>

\* C18: the average wait of a returned report is the mean, rounded to one
\* decimal, of the positive waits of the interactions the report holds
\* (those left after dedup), and 0 when it holds none with a positive
\* wait; the waits 4, 0, 6, -1 give 5.0.  (Values are in tenths.)
C18_AverageOfPositiveWaits ==
  /\ AverageWait(ExampleWaits) = 50
  /\ returned # None =>
       IF PositiveWaitCount(Report.qaPairs) = 0
       THEN Report.averageWaitTimeSeconds = 0
       ELSE IsRounded(Report.averageWaitTimeSeconds,
                      10 * PositiveWaitSum(Report.qaPairs, Len(Report.qaPairs)),
                      PositiveWaitCount(Report.qaPairs))

\* a report of three interactions with the waits 6, 5 and 6, average 5.7,
\* left of four gathered interactions with positive waits, the sum of
\* which is 23
C18_Witness ==
  /\ returned # None
  /\ Len(Report.qaPairs) = 3
  /\ PositiveWaitSum(Report.qaPairs, 3) = 17
  /\ Report.averageWaitTimeSeconds = 57
  /\ Len(GatheredInteractions) = 4
  /\ PositiveWaitCount(GatheredInteractions) = 4
  /\ PositiveWaitSum(GatheredInteractions, 4) = 23

\* the tally `field` summed over the responses of all chunks, as returned
ReturnedSeconds(field) ==
  SumOf([k \in 1..Len(segmentResults) |-> OrZero(RawResult(k)[field])])

ReturnedTotal ==
  ReturnedSeconds("teacherTalkSeconds") + ReturnedSeconds("studentTalkSeconds")
    + ReturnedSeconds("silenceSeconds")

ExampleTallies == CombineResults(<<Payload(<<120, 60, 20>>, <<>>)>>)

\* C19: when the summed tallies are positive, each percentage of a
\* returned report is 100 * part / total rounded to one decimal, part and
\* total being the sums over all chunks of the tallies as returned,
\* whatever dedup dropped; 120, 60 and 20 give 60.0, 30.0 and 10.0.
\* (Values are in tenths.)
C19_PercentagesFromRawTallies ==
  /\ ExampleTallies.teacherTalkTimePercentage = 600
  /\ ExampleTallies.studentTalkTimePercentage = 300
  /\ ExampleTallies.silenceOrGroupWorkPercentage = 100
  /\ (returned # None /\ ReturnedTotal > 0) =>
       /\ IsRounded(Report.teacherTalkTimePercentage,
                    1000 * ReturnedSeconds("teacherTalkSeconds"), ReturnedTotal)
       /\ IsRounded(Report.studentTalkTimePercentage,
                    1000 * ReturnedSeconds("studentTalkSeconds"), ReturnedTotal)
       /\ IsRounded(Report.silenceOrGroupWorkPercentage,
                    1000 * ReturnedSeconds("silenceSeconds"), ReturnedTotal)

\* tallies 3, 2 and 1 over two chunks give 50.0, 33.3 and 16.7 in a report
\* from which a duplicate interaction was dropped
C19_Witness ==
  /\ returned # None
  /\ Len(segmentResults) = 2
  /\ ReturnedSeconds("teacherTalkSeconds") = 3
  /\ Report.teacherTalkTimePercentage = 500
  /\ Report.studentTalkTimePercentage = 333
  /\ Report.silenceOrGroupWorkPercentage = 167
  /\ Len(Report.qaPairs) < Len(GatheredInteractions)

RECURSIVE Contributed(_, _, _)
\* the sum of the count `field` over the usage metadata of the first k
\* responses to calls of the kind `call`
Contributed(k, call, field) ==
  IF k = 0 THEN 0
  ELSE Contributed(k - 1, call, field)
         + (IF responses[k].call = call /\ responses[k].usage # None
            THEN OrZero(Get(responses[k].usage)[field]) ELSE 0)

AnalysisPrompt == Contributed(Len(responses), "analysis", "promptTokenCount")
AnalysisCompletion == Contributed(Len(responses), "analysis", "candidatesTokenCount")
SynthesisPrompt == Contributed(Len(responses), "feedback", "promptTokenCount")
SynthesisCompletion == Contributed(Len(responses), "feedback", "candidatesTokenCount")

\* C20: at every point of a run the analysis counters are the sums of the
\* counts of the analysis responses so far, the synthesis counters are
\* the sums of the counts of the synthesis response, and the totals of a
\* returned report are analysis plus synthesis; (100, 50) and (80, 40)
\* give 180 and 90.
C20_UsageTotalsAdditive ==
  /\ tokenTracker.chunkAnalysis.prompt = AnalysisPrompt
  /\ tokenTracker.chunkAnalysis.completion = AnalysisCompletion
  /\ tokenTracker.feedbackGeneration.prompt = SynthesisPrompt
  /\ tokenTracker.feedbackGeneration.completion = SynthesisCompletion
  /\ returned # None =>
       LET usage == Get(returned).tokenUsage
       IN /\ usage.promptTokens = AnalysisPrompt + SynthesisPrompt
          /\ usage.completionTokens = AnalysisCompletion + SynthesisCompletion
          /\ usage.totalTokens = AnalysisPrompt + SynthesisPrompt
                                   + AnalysisCompletion + SynthesisCompletion
          /\ usage.breakdown.chunkAnalysis =
               [prompt |-> AnalysisPrompt, completion |-> AnalysisCompletion]
          /\ usage.breakdown.feedbackGeneration =
               [prompt |-> SynthesisPrompt, completion |-> SynthesisCompletion]

\* two analyses contributed (100, 50) and (80, 40), the synthesis (80, 40)
C20_Witness ==
  /\ returned # None
  /\ Len(responses) = 3
  /\ responses[1].usage =
       Some([promptTokenCount |-> Some(100), candidatesTokenCount |-> Some(50)])
  /\ responses[2].usage =
       Some([promptTokenCount |-> Some(80), candidatesTokenCount |-> Some(40)])
  /\ tokenTracker.chunkAnalysis = [prompt |-> 180, completion |-> 90]
  /\ tokenTracker.feedbackGeneration = [prompt |-> 80, completion |-> 40]
  /\ Get(returned).tokenUsage.totalTokens = 390

\* the step has recorded one more response, that of an analysis call
AnalysisResponded ==
  /\ Len(responses') = Len(responses) + 1
  /\ responses'[Len(responses')].call = "analysis"

\* C21: a step in which an analysis call returns a response with usage
\* metadata adds the response's counts to the analysis counters, also
\* when the response has no text or text that does not parse; a step in
\* which the call returns no response, a retried overloaded attempt
\* included, leaves all counters as they are.
C21_UsageOfEveryResponse ==
  [][/\ AnalysisResponded =>
          LET usage == responses'[Len(responses')].usage
          IN IF usage = None
             THEN tokenTracker' = tokenTracker
             ELSE /\ tokenTracker'.chunkAnalysis.prompt =
                       tokenTracker.chunkAnalysis.prompt
                         + OrZero(Get(usage).promptTokenCount)
                  /\ tokenTracker'.chunkAnalysis.completion =
                       tokenTracker.chunkAnalysis.completion
                         + OrZero(Get(usage).candidatesTokenCount)
                  /\ tokenTracker'.feedbackGeneration = tokenTracker.feedbackGeneration
     /\ responses' = responses => tokenTracker' = tokenTracker]_vars

\* an overloaded attempt was retried, and the response to the second call,
\* which carried usage metadata and text that does not parse, was counted
C21_Witness ==
  /\ thrown = "SyntaxError"
  /\ attempt = 1
  /\ genCalls = 2
  /\ Len(responses) = 1
  /\ responses[1].usage # None
  /\ responses[1].text.kind = "unparseable"
  /\ tokenTracker.chunkAnalysis = [prompt |-> 100, completion |-> 50]

\* C22: a chunk file above 200 MiB makes the upload fail with the
\* too-large error without any request having been issued for it, and
\* the run fails; an upload request is only ever issued for a file within
\* the limit (a file of exactly 200 MiB is uploaded).
C22_TooLargeBeforeRequest ==
  /\ \A k \in 0..(N - 1) :
       Happened("uploadRequest", k) => segments[k + 1].size <= 200 * 1024 * 1024
  /\ \A k \in 0..(N - 1) :
       (Happened("uploadBegin", k) /\ segments[k + 1].size > 200 * 1024 * 1024) =>
         /\ ~Happened("uploadRequest", k)
         /\ pc = "failed"
         /\ thrown = "TooLarge"
         /\ lastCall = "none"
         /\ returned = None
         /\ i = k
         /\ Len(segmentUris) = k
  /\ thrown = "TooLarge" => segments[i + 1].size > 200 * 1024 * 1024

\* the first chunk was uploaded, the second is one byte over the limit
C22_Witness ==
  /\ thrown = "TooLarge"
  /\ i = 1
  /\ Happened("uploadRequest", 0)
  /\ segments[1].size = UploadLimitBytes
  /\ segments[2].size = UploadLimitBytes + 1

\* the parsed payload lacks a tally or a list of the segment schema
LacksShape(payload) ==
  \/ payload.teacherTalkSeconds = None
  \/ payload.studentTalkSeconds = None
  \/ payload.silenceSeconds = None
  \/ payload.qaPairs = None
  \/ payload.transcript = None

\* the text of response j is not the JSON text of a segment analysis
NotAChunkResult(j) ==
  /\ responses[j].call = "analysis"
  /\ \/ responses[j].text.kind = "unparseable"
     \/ responses[j].text.kind = "json" /\ LacksShape(responses[j].text.value)

\* C23 as stated: once an analysis response has a payload that does not
\* parse into the segment schema, the run has failed, returns no report,
\* and holds no result for that chunk.
C23_ShapeFailureIsFatal ==
  \A j \in 1..Len(responses) :
    NotAChunkResult(j) =>
      /\ pc = "failed"
      /\ returned = None
      /\ Len(segmentResults) <= responses[j].chunk

\* C24 as stated: once ff.exec has resolved with a status other than 0,
\* the run has failed in segmentVideo: no chunk is uploaded or analysed
\* and no report is returned.
C24_CutFailureAborts ==
  execFailed =>
    /\ pc = "failed"
    /\ thrown \in {"CutError", "ReadError"}
    /\ returned = None
    /\ \A k \in 0..(N - 1) :
         ~Happened("uploadBegin", k) /\ ~Happened("analyzeBegin", k)

(***************************************************************************)
(* Calls of segmentVideo in flight together.  They share the module-level  *)
(* `ffmpeg`, hence one file system with the names 'input.mp4' and          *)
(* 'segment_NNN.mp4'; the worker of the instance serves one request at a   *)
(* time, so that every awaited request is one step.  A file holds the      *)
(* recording it was written or cut from.                                   *)
(***************************************************************************)
\* where call c continues once segment k of n is done
AfterCut(k, n) == IF k < n THEN "exec" ELSE "cleanup"

SetCutRun(c, next, k, out) ==
  cutRuns' = [cutRuns EXCEPT ![c] = [@ EXCEPT !.pc = next, !.i = k, !.segments = out]]

(* segmentVideo(file, ...) is called: loadFFmpeg, getVideoDuration *)
StartSegmentVideo ==
  /\ Len(cutRuns) < MaxCutRuns
  /\ \E n \in 1..MaxCutSegments :
       cutRuns' = Append(cutRuns,
         [pc |-> "write", file |-> Len(cutRuns) + 1, numSegments |-> n, i |-> 0,
          segments |-> <<>>])
  /\ UNCHANGED <<pipelineVars, uiVars, stampVars, inputFile, segmentFiles>>

(* await ff.writeFile('input.mp4', inputData) *)
WriteInputFile ==
  \E c \in 1..Len(cutRuns) :
    /\ cutRuns[c].pc = "write"
    /\ inputFile' = Some(cutRuns[c].file)
    /\ SetCutRun(c, "exec", 0, <<>>)
    /\ UNCHANGED <<pipelineVars, uiVars, stampVars, segmentFiles>>

(* await ff.exec([... '-i', 'input.mp4', ... '-y', outputFileName]): the   *)
(* output is cut from whatever 'input.mp4' holds; without an input the     *)
(* command fails and writes nothing, and its exit code is not looked at    *)
ExecCut ==
  \E c \in 1..Len(cutRuns) :
    /\ cutRuns[c].pc = "exec"
    /\ segmentFiles' =
         IF inputFile = None THEN segmentFiles
         ELSE [segmentFiles EXCEPT ![cutRuns[c].i] =
                 Some([source |-> Get(inputFile), index |-> cutRuns[c].i])]
    /\ SetCutRun(c, "read", cutRuns[c].i, cutRuns[c].segments)
    /\ UNCHANGED <<pipelineVars, uiVars, stampVars, inputFile>>

(* await ff.readFile(outputFileName) and segments.push; a missing file     *)
(* rejects                                                                 *)
ReadOutputFile ==
  \E c \in 1..Len(cutRuns) :
    /\ cutRuns[c].pc = "read"
    /\ IF segmentFiles[cutRuns[c].i] = None
       THEN SetCutRun(c, "failed", cutRuns[c].i, cutRuns[c].segments)
       ELSE SetCutRun(c, "delete", cutRuns[c].i,
                      Append(cutRuns[c].segments, Get(segmentFiles[cutRuns[c].i])))
    /\ UNCHANGED <<pipelineVars, uiVars, stampVars, inputFile, segmentFiles>>

(* await ff.deleteFile(outputFileName); a missing file rejects *)
DeleteOutputFile ==
  \E c \in 1..Len(cutRuns) :
    /\ cutRuns[c].pc = "delete"
    /\ IF segmentFiles[cutRuns[c].i] = None
       THEN /\ SetCutRun(c, "failed", cutRuns[c].i, cutRuns[c].segments)
            /\ UNCHANGED segmentFiles
       ELSE /\ segmentFiles' = [segmentFiles EXCEPT ![cutRuns[c].i] = None]
            /\ SetCutRun(c, AfterCut(cutRuns[c].i + 1, cutRuns[c].numSegments),
                         cutRuns[c].i + 1, cutRuns[c].segments)
    /\ UNCHANGED <<pipelineVars, uiVars, stampVars, inputFile>>

(* await ff.deleteFile('input.mp4') and return segments; a missing file    *)
(* rejects                                                                 *)
DeleteInputFile ==
  \E c \in 1..Len(cutRuns) :
    /\ cutRuns[c].pc = "cleanup"
    /\ IF inputFile = None
       THEN /\ SetCutRun(c, "failed", cutRuns[c].i, cutRuns[c].segments)
            /\ UNCHANGED inputFile
       ELSE /\ inputFile' = None
            /\ SetCutRun(c, "returned", cutRuns[c].i, cutRuns[c].segments)
    /\ UNCHANGED <<pipelineVars, uiVars, stampVars, segmentFiles>>

InitShared ==
  /\ totalDuration = 0
  /\ fileSize = UploadLimitBytes
  /\ segmentDurationSeconds = CHUNK_DURATION_MINUTES * 60
  /\ InitRun

NextShared ==
  \/ StartSegmentVideo
  \/ WriteInputFile
  \/ ExecCut
  \/ ReadOutputFile
  \/ DeleteOutputFile
  \/ DeleteInputFile

SpecShared == InitShared /\ [][NextShared]_vars

(***************************************************************************)
(* adjustTimestamp alone: a timestamp of a response, as formatTimestamp    *)
(* writes the seconds of a segment or in the HH:MM:SS form parseTimestamp  *)
(* also reads, adjusted by segment offsets.                                *)
(***************************************************************************)
\* the timestamp stands for 0..MaxLocalSeconds seconds
MaxLocalSeconds == 299

\* offsets are those of the segments 0..MaxChunkIndex
MaxChunkIndex == 20

LocalStamps ==
  {formatTimestamp(sec) : sec \in 0..MaxLocalSeconds} \cup {Ts000458}

ChunkOffsets == {k * CHUNK_DURATION_MINUTES * 60 : k \in 0..MaxChunkIndex}

(* adjustTimestamp(stamp, offsetSeconds), once and once again *)
AdjustStamp ==
  /\ Len(stampOffsets) < 2
  /\ \E offsetSeconds \in ChunkOffsets :
       /\ stamp' = adjustTimestamp(stamp, offsetSeconds)
       /\ stampOffsets' = Append(stampOffsets, offsetSeconds)
  /\ UNCHANGED <<pipelineVars, uiVars, cutterVars, stampOrigin>>

InitTimestamp ==
  /\ totalDuration = 0
  /\ fileSize = UploadLimitBytes
  /\ segmentDurationSeconds = CHUNK_DURATION_MINUTES * 60
  /\ InitApp
  /\ InitCutter
  /\ InitPipeline
  /\ InitSink(TRUE)
  /\ \E origin \in LocalStamps : InitStamp(origin)

NextTimestamp == AdjustStamp

SpecTimestamp == InitTimestamp /\ [][NextTimestamp]_vars

\* the chunk files the run holds: the File objects of `segments`, which
\* stay referenced until analyzeLessonVideo has returned or thrown
HeldChunks == IF pc \in {"done", "failed"} THEN 0 ELSE Len(segments)

\* C25 as stated: the run never holds more than one chunk file, and chunk
\* k+1 is produced only after the upload of chunk k has succeeded.
C25_AtMostOneChunkHeld ==
  /\ HeldChunks <= 1
  /\ \A k \in 0..(N - 1) :
       Len(segments) > k + 1 => Happened("uploadReturn", k)

\* the latest step was a generateContent call for a chunk that threw an
\* error carrying 503 neither as its status nor in its message
OtherFailure ==
  /\ lastCall = "generate"
  /\ lastError # None
  /\ Get(lastError).status # 503
  /\ ~Get(lastError).mentions503

C27_OversizedSourceRejected ==
  TooLarge(fileSize) =>
    /\ segments = <<>>
    /\ returned = None
    /\ \A k \in 0..(N - 1) :
         ~Happened("uploadBegin", k) /\ ~Happened("uploadRequest", k)

\* C28 as stated: once the App shows IDLE, with no data, error or progress,
\* it keeps showing that until a file is selected, whatever runs are in
\* flight.
C28_IdleUntilNextSelection ==
  [][(appState = IdleState /\ Len(runs') = Len(runs)) => appState' = IdleState]_vars

\* C29 as stated: once a second run has been started, what the App shows
\* was written by the latest run, and a report shown is the latest run's.
C29_ShowsLatestRun ==
  Len(runs) >= 2 =>
    /\ appState.status # "IDLE" => lastWriter = Len(runs)
    /\ appState.data # None => Get(appState.data).run = Len(runs)

\* the promise of analyzeLessonVideo has settled
Settled == pc \in {"done", "failed"}

\* C30: the polling loop has no ceiling: whatever the number of polls made,
\* a handle still PROCESSING is polled again and the run has not failed for
\* it; and when every request is answered and every handle leaves
\* PROCESSING at some poll, the run ends, complete or failed.
C30_NoPollCeilingAndTermination ==
  /\ [](pc = "poll" =>
         /\ state = "PROCESSING"
         /\ thrown = "none"
         /\ ENABLED PollStatusAnyTimes)
  /\ <>Settled

\* the handle of the second segment is still PROCESSING after more polls
\* than the model counts, and is polled on
C30_Witness ==
  /\ pc = "poll"
  /\ i = 1
  /\ polls = MaxPolls + 1
  /\ state = "PROCESSING"
  /\ lastCall = "status"
  /\ ENABLED PollStatusAnyTimes

\* C31 as stated: every segment file a segmentVideo call has collected was
\* cut from the recording that call was given, whatever other call is in
\* flight.
C31_SegmentsFromOwnSource ==
  \A c \in 1..Len(cutRuns) :
    \A k \in 1..Len(cutRuns[c].segments) :
      cutRuns[c].segments[k].source = cutRuns[c].file

\* the run has been ended by a failed upload or a failed status check
RequestFailed == thrown \in {"UploadFailed", "NoUri", "StatusCheckFailed"}

\* C32: an upload request is issued for a segment only when none has been
\* issued for it before, and an upload answered without success or without
\* a URI, or a failed status check, ends the run in that step: the failed
\* request was the latest one and neither an upload nor a status request
\* can follow.
C32_NoRetryOfUploadOrStatus ==
  /\ [][lastCall' = "upload" =>
          /\ ~Happened("uploadRequest", i)
          /\ <<"uploadRequest", i>> \in events']_vars
  /\ [](RequestFailed =>
          /\ pc = "failed"
          /\ returned = None
          /\ lastCall = (IF thrown = "StatusCheckFailed" THEN "status" ELSE "upload")
          /\ ~Happened("uploadReturn", i) \/ thrown = "StatusCheckFailed"
          /\ ~ENABLED Upload
          /\ ~ENABLED PollStatus)

\* the upload of the second segment was answered without a URI: one request
\* for each segment, and the run has failed
C32_Witness ==
  /\ thrown = "NoUri"
  /\ i = 1
  /\ Happened("uploadRequest", 0)
  /\ Happened("uploadRequest", 1)
  /\ ~Happened("uploadReturn", 1)
  /\ pc = "failed"

RECURSIVE IsSubsequence(_, _)
\* `sub` is `list` with some entries left out, the order kept
IsSubsequence(sub, list) ==
  IF sub = <<>> THEN TRUE
  ELSE IF list = <<>> THEN FALSE
  ELSE IF sub[1] = list[1] THEN IsSubsequence(Tail(sub), Tail(list))
  ELSE IsSubsequence(sub, Tail(list))

\* `kept` is an order-preserving selection of `sorted` that begins with the
\* first entry of `sorted`
SelectionFromFirst(sorted, kept) ==
  /\ IsSubsequence(kept, sorted)
  /\ sorted # <<>> => (kept # <<>> /\ kept[1] = sorted[1])

\* of any two distinct entries that meet the rule Dup, the later one in
\* `sorted` is not in `kept`
LaterOfEveryPairDropped(sorted, kept, Dup(_, _)) ==
  \A j, k \in 1..Len(sorted) :
    (j < k /\ sorted[j] # sorted[k] /\ Dup(sorted[j], sorted[k]))
      => sorted[k] \notin Range(kept)

\* an entry that meets the rule Dup with an earlier kept entry is not kept,
\* and every entry left out meets it with an earlier kept entry
LaterOfKeptDropped(sorted, kept, Dup(_, _)) ==
  /\ \A j, k \in 1..Len(sorted) :
       (j < k /\ sorted[j] # sorted[k] /\ sorted[j] \in Range(kept)
          /\ Dup(sorted[j], sorted[k]))
         => sorted[k] \notin Range(kept)
  /\ \A k \in 1..Len(sorted) :
       sorted[k] \notin Range(kept) =>
         \E j \in 1..(k - 1) :
           sorted[j] \in Range(kept) /\ Dup(sorted[j], sorted[k])

Ts0502 == <<"0", "5", ":", "0", "2">>
Ts0508 == <<"0", "5", ":", "0", "8">>

\* the two utterances of the example, 6 s apart
ExampleRepeat ==
  <<[speaker |-> "Teacher", text |-> TxtWhatIs, timestamp |-> Ts0502],
    [speaker |-> "Teacher", text |-> TxtWhatIsLower, timestamp |-> Ts0508]>>

\* C33 as stated: the lists of a report are order-preserving selections of
\* the sorted entries beginning with the first, and of two near-duplicate
\* entries the later one is dropped.
C33_LaterOfPairDropped ==
  returned # None =>
    /\ SelectionFromFirst(SortedUtterances, Report.transcript)
    /\ SelectionFromFirst(SortedInteractions, Report.qaPairs)
    /\ LaterOfEveryPairDropped(SortedUtterances, Report.transcript,
                               NearDuplicateUtterances)
    /\ LaterOfEveryPairDropped(SortedInteractions, Report.qaPairs,
                               NearDuplicateInteractions)

\* C33, amended: the lists of a report are order-preserving selections of
\* the sorted entries beginning with the first; an entry is dropped exactly
\* when it is a near-duplicate of an earlier entry that was kept, so that a
\* near-duplicate of a dropped entry only may be kept; the 05:02 and 05:08
\* utterances of the example collapse to the 05:02 one.
C33_KeepsFirstEncountered ==
  /\ deduplicateTranscript(ExampleRepeat) = <<ExampleRepeat[1]>>
  /\ returned # None =>
       /\ SelectionFromFirst(SortedUtterances, Report.transcript)
       /\ SelectionFromFirst(SortedInteractions, Report.qaPairs)
       /\ LaterOfKeptDropped(SortedUtterances, Report.transcript,
                             NearDuplicateUtterances)
       /\ LaterOfKeptDropped(SortedInteractions, Report.qaPairs,
                             NearDuplicateInteractions)

\* three utterances in a chain: the second repeats the first and is
\* dropped, the third repeats the dropped second only and is kept
C33_Witness ==
  /\ returned # None
  /\ Len(SortedUtterances) = 3
  /\ NearDuplicateUtterances(SortedUtterances[1], SortedUtterances[2])
  /\ NearDuplicateUtterances(SortedUtterances[2], SortedUtterances[3])
  /\ SortedUtterances[2] # SortedUtterances[3]
  /\ Report.transcript = <<SortedUtterances[1], SortedUtterances[3]>>
  /\ GatheredUtterances # SortedUtterances

\* the offsets applied so far, added up
OffsetsTotal ==
  IF stampOffsets = <<>> THEN 0
  ELSE IF Len(stampOffsets) = 1 THEN stampOffsets[1]
  ELSE stampOffsets[1] + stampOffsets[2]

\* the seconds from the start of the recording that `stamp` is to show
StampSeconds == parseTimestamp(stampOrigin) + OffsetsTotal

\* ts reads HH:MM:SS, two digits each at least, MM and SS below 60, and
\* stands for `seconds`
ReadsAsHoursMinutesSeconds(ts, seconds) ==
  LET parts == Split(ts, ":")
  IN /\ Len(parts) = 3
     /\ Len(parts[1]) >= 2 /\ AllDigits(parts[1])
     /\ Len(parts[2]) = 2 /\ AllDigits(parts[2])
     /\ Len(parts[3]) = 2 /\ AllDigits(parts[3])
     /\ DigitsValue(parts[2]) < 60 /\ DigitsValue(parts[3]) < 60
     /\ 3600 * DigitsValue(parts[1]) + 60 * DigitsValue(parts[2])
          + DigitsValue(parts[3]) = seconds

\* 99:59 in seconds
LastMinutesSeconds == 99 * 60 + 59

\* C34 as stated: an adjusted timestamp reads MM:SS up to 99:59 and
\* HH:MM:SS beyond.
C34_HoursBeyond9959 ==
  stampOffsets # <<>> =>
    IF StampSeconds <= LastMinutesSeconds
    THEN ReadsAsMinutesSeconds(stamp, StampSeconds)
    ELSE ReadsAsHoursMinutesSeconds(stamp, StampSeconds)

\* C39: formatting a whole number of seconds and parsing the result gives
\* the number back, so an adjusted timestamp stands for the original
\* seconds plus the offsets, and adjusting by a and then by b gives the
\* same timestamp as adjusting once by a + b.
C39_RoundTripAndAdditive ==
  /\ parseTimestamp(formatTimestamp(StampSeconds)) = StampSeconds
  /\ parseTimestamp(stamp) = StampSeconds
  /\ Len(stampOffsets) = 2 =>
       /\ stamp = adjustTimestamp(adjustTimestamp(stampOrigin, stampOffsets[1]),
                                  stampOffsets[2])
       /\ stamp = adjustTimestamp(stampOrigin, stampOffsets[1] + stampOffsets[2])

\* 00:04:58 adjusted by 300 s and then by 6000 s stands for 6598 s
C39_Witness ==
  /\ stampOrigin = Ts000458
  /\ stampOffsets = <<300, 6000>>
  /\ parseTimestamp(stamp) = 6598
  /\ stamp = adjustTimestamp(Ts000458, 6300)

\* the latest step was a generateContent call for a segment that threw
AttemptFailed == lastCall = "generate" /\ lastError # None

\* C35: after a failed analysis call that is followed by another call for
\* the segment the run waits 2 s when it was the first call and 4 s when it
\* was the second, and nothing else; after a failed call that ends the
\* run, the third overloaded one included, it waits for nothing.
C35_BackoffDoubles ==
  AttemptFailed =>
    IF pc = "failed"
    THEN waits = <<>>
    ELSE /\ pc = "analyze"
         /\ genCalls \in {1, 2}
         /\ genCalls = 1 => waits = <<2000>>
         /\ genCalls = 2 => waits = <<4000>>

\* the second call for the second segment was overloaded: 4 s are awaited
\* before the third
C35_Witness ==
  /\ AttemptFailed
  /\ pc = "analyze"
  /\ i = 1
  /\ genCalls = 2
  /\ waits = <<4000>>
  /\ ENABLED GenerateAttempt

\* the third call for a segment was overloaded as well: the run has failed
\* and nothing was awaited
C35_WitnessFinal ==
  /\ AttemptFailed
  /\ genCalls = 3
  /\ thrown = "Overloaded"
  /\ waits = <<>>

\* C36 as stated: an analysis call that throws an error whose status is
\* not 503 is not retried, whatever its message says: the run fails with
\* it in that step and awaits nothing.
C36_RetryOnlyOnStatus503 ==
  (AttemptFailed /\ Get(lastError).status # 503) =>
    /\ pc = "failed"
    /\ waits = <<>>
    /\ ~ENABLED GenerateAttempt

\* the accepted responses for segment k (0-based)
AcceptedFor(k) ==
  {j \in 1..Len(responses) :
     /\ responses[j].call = "analysis"
     /\ responses[j].chunk = k
     /\ responses[j].text.kind = "json"}

\* C37: the handles are kept in segment order, the one at position k being
\* the one the upload of segment k returned; the segment uploaded or polled
\* is the first without a handle and the segment analysed is the first
\* without a result, so that none is uploaded or analysed again; a call of
\* analyzeVideoSegment for segment k is made with the handle of segment k;
\* and the result kept for segment k is the one accepted response for it,
\* with its timestamps moved by the start of segment k.
C37_ChunkCorrespondence ==
  /\ Len(segmentUris) <= N
  /\ \A k \in 1..Len(segmentUris) :
       segmentUris[k] = k - 1 /\ Happened("uploadReturn", k - 1)
  /\ pc \in {"upload", "poll"} => i = Len(segmentUris)
  /\ pc = "poll" => fileUri = i
  /\ pc = "analyze" => (i = Len(segmentResults) /\ Len(segmentUris) = N)
  /\ lastAnalysis # None =>
       /\ Get(lastAnalysis).fileUri = Get(lastAnalysis).segmentIndex
       /\ Happened("uploadReturn", Get(lastAnalysis).segmentIndex)
       /\ Get(lastAnalysis).segmentIndex \in {Len(segmentResults) - 1, Len(segmentResults)}
  /\ Len(segmentResults) <= N
  /\ \A k \in 1..Len(segmentResults) :
       /\ Cardinality(AcceptedFor(k - 1)) = 1
       /\ RawResult(k).transcript # None =>
            MovedBy(Get(RawResult(k).transcript), Get(segmentResults[k].transcript),
                    (k - 1) * CHUNK_DURATION_MINUTES * 60)
       /\ RawResult(k).qaPairs # None =>
            MovedBy(Get(RawResult(k).qaPairs), Get(segmentResults[k].qaPairs),
                    (k - 1) * CHUNK_DURATION_MINUTES * 60)

\* two segments analysed, the second at its second call, under the handle
\* of the second upload, its utterance moved by 300 s
C37_Witness ==
  /\ Len(segmentResults) = 2
  /\ lastAnalysis = Some([fileUri |-> 1, segmentIndex |-> 1])
  /\ genCalls = 2
  /\ segmentUris = <<0, 1>>
  /\ segmentResults[2].transcript # None
  /\ Len(Get(segmentResults[2].transcript)) = 1
  /\ parseTimestamp(Get(segmentResults[2].transcript)[1].timestamp) = 303

\* C38: for any two gathered utterances, and any two gathered
\* interactions, the test of deduplicateTranscript, respectively of
\* deduplicateQaPairs, gives the same answer in both orders, and so does
\* the similarity of their texts.
C38_DuplicateTestSymmetric ==
  /\ \A a, b \in Range(GatheredUtterances) :
       /\ IsDuplicateSegment(a, b) <=> IsDuplicateSegment(b, a)
       /\ areTextsSimilar(a.text, b.text) <=> areTextsSimilar(b.text, a.text)
  /\ \A a, b \in Range(GatheredInteractions) :
       /\ IsDuplicateQa(a, b) <=> IsDuplicateQa(b, a)
       /\ areTextsSimilar(a.question, b.question)
            <=> areTextsSimilar(b.question, a.question)

\* three utterances gathered: two whose texts differ and one contains the
\* other, duplicates in both orders, and a third that is a duplicate of
\* neither
C38_Witness ==
  /\ Len(GatheredUtterances) = 3
  /\ \E a, b, c \in Range(GatheredUtterances) :
       /\ normalizeText(a.text) # normalizeText(b.text)
       /\ Includes(normalizeText(a.text), normalizeText(b.text))
       /\ IsDuplicateSegment(a, b) /\ IsDuplicateSegment(b, a)
       /\ ~IsDuplicateSegment(a, c) /\ ~IsDuplicateSegment(c, a)
       /\ ~IsDuplicateSegment(b, c) /\ ~IsDuplicateSegment(c, b)

(* analyzeLessonVideo(file, onProgress) with and without a sink *)
InitProgress ==
  /\ totalDuration \in Durations
  /\ fileSize = UploadLimitBytes
  /\ segmentDurationSeconds = CHUNK_DURATION_MINUTES * 60
  /\ InitApp
  /\ InitCutter
  /\ InitStamp(Ts0003)
  /\ InitPipeline
  /\ \E sink \in BOOLEAN : InitSink(sink)

\* response.text of a segment analysis: none, text that JSON.parse
\* rejects, or the JSON text of an object without fields
ProgressTexts ==
  {[kind |-> "none"], [kind |-> "unparseable"],
   [kind |-> "json", value |-> EmptyObject]}

NextProgress ==
  \/ LoadFFmpeg
  \/ GetVideoDuration
  \/ CutSegment
  \/ FinishSegmentation
  \/ Upload
  \/ PollStatus
  \/ GenerateAttemptOf(ApiErrors, Usages, ProgressTexts)
  \/ GenerateFeedbackOf(Usages, FeedbackTexts)

SpecProgress == InitProgress /\ [][NextProgress]_vars

\* the phases whose notifications are about one segment
SegmentPhases == {"uploading", "processing", "analyzing"}

\* the place of a notification in the order of the run: segmenting, then
\* uploading and processing of segment 1, of segment 2, ..., then analyzing
\* of segment 1, of segment 2, ..., then combining, then feedback
PlaceOf(progress) ==
  LET c == progress.currentSegment
      n == progress.totalSegments
  IN CASE progress.phase = "segmenting" -> 0
       [] progress.phase = "uploading"  -> 2 * c - 1
       [] progress.phase = "processing" -> 2 * c
       [] progress.phase = "analyzing"  -> 2 * n + c
       [] progress.phase = "combining"  -> 3 * n + 1
       [] progress.phase = "feedback"   -> 3 * n + 2

Told(progress) == \E j \in 1..Len(notified) : notified[j] = progress

ToldOf(phase, c) ==
  \E j \in 1..Len(notified) :
    notified[j].phase = phase /\ notified[j].currentSegment = c

\* the Report as the answers of the service alone determine it
ReportOfAnswers ==
  LET last == responses[Len(responses)]
  IN [analysis |-> CombineResults(segmentResults),
      overallFeedback |->
        IF last.text.value = None \/ last.text.value = Some("")
        THEN DefaultFeedback ELSE Get(last.text.value),
      tokenUsage |-> getUsage(tokenTracker)]

C40_WitnessNoSink ==
  /\ ~onProgress
  /\ pc = "done"
  /\ returned # None
  /\ Len(segments) = 2
  /\ notified = <<>>

====
